---- MODULE Spec2Model ----
(***************************************************************************)
(* EPA GHG data API (lambda_api): the read-through parquet cache, the      *)
(* query composition of the handlers, and the route dispatch.              *)
(*                                                                         *)
(* Spec        the snapshot cache (get_local_parquet) under concurrent     *)
(*             requests of one process.                                    *)
(* SpecQuery   the handlers that sum emissions, each run on a request and  *)
(*             a small dataset: the query it composes, what the engine     *)
(*             computes for it, and the response it shapes.                *)
(* SpecPage    handle_list_facilities on datasets of several pages.        *)
(* SpecExport  handle_export on datasets beyond the export limit.          *)
(* SpecRoute   lambda_handler of lambda_function.py and of handler.py.     *)
(* SpecFiles   handle_data_download behind the dispatch, and the bucket.   *)
(* SpecGeo     handle_state_bounds and handle_state_counties behind the    *)
(*             dispatch, and the geo files.                                *)
(* SpecApi     one request of any of these kinds, answered.                *)
(* SpecUnits   the conversion of a result's totals to MMT.                 *)
(* SpecStall   the snapshot cache when one thread may stall.               *)
(* SpecHang    the snapshot cache when the remote store may stall.         *)
(* SpecAbandon the snapshot cache when callers may go away.                *)
(* SpecTables  the tables a request acquires before its query.             *)
(* SpecWarm    the snapshot cache on a /tmp left by an earlier process.    *)
(* SpecHover   handle_facility_hover from its first statement on.          *)
(***************************************************************************)
EXTENDS Integers, Sequences, FiniteSets, TLC

VARIABLES
    file_cache,   \* lambda_function.file_cache: table name -> local path
    tmp,          \* /tmp: table name -> version of the file at its local path, 0 = no file
    s3,           \* the remote store: the version of the objects now published in the bucket
    pc,           \* per request thread: where it stands
    op,           \* per request thread: the handler it runs
    idx,          \* per request thread: which get_local_parquet call of the handler it is in
    paths,        \* per request thread: the paths its get_local_parquet calls returned so far
    dl,           \* per request thread: the object version its download_file is transferring
    out,          \* per request thread: status code of the response, 0 = none yet
    observed,     \* tables whose local file some query has read
    attempts,     \* per request thread: the tables its request called download_file for, in order
    fetches,      \* per table: download_file calls begun by the calls now overlapping (0, 1, 2 = more)
    served,       \* requests the process has taken so far
    event,        \* the request a handler is given: operation, JSON body, query and path parameters
    data,         \* the rows the handler's tables hold
    query,        \* the query the handler composed, as its clauses
    response,     \* the response the handler returned
    bodies,       \* per request thread: the body of the response, as the handler builds it
    calls,        \* the calls a handler made on the bucket outside get_local_parquet, in order
    abandoned,    \* per request thread: the caller of its request has gone away
    conn,         \* the module-level conn of lambda_function.py and of handler.py: None or a connection
    geo_cache     \* lambda_function.geo_cache: geo file name -> the data loaded from it

vars == <<file_cache, tmp, s3, pc, op, idx, paths, dl, out, observed, attempts, fetches, served,
          event, data, query, response, bodies, calls, abandoned, conn, geo_cache>>

----------------------------------------------------------------------------
(* Bounds *)

NumThreads == 2
MaxVersion == 2
MaxRequests == 2

Threads == 1..NumThreads
Versions == 1..MaxVersion

----------------------------------------------------------------------------
(* The dataset catalog and the handlers' table lists *)

FAC == "RLPS_GHG_EMITTER_FACILITIES"
SEC == "RLPS_GHG_EMITTER_SECTOR"
DIM == "PUB_DIM_SECTOR"
AGG == "RLPS_FAC_YEAR_AGG"

Tables == {FAC, SEC, DIM, AGG}

\* local_path = f"/tmp/ghg.{table_name}.parquet"
LocalPath(t) == <<"/tmp/ghg.", t, ".parquet">>

CacheOps == {"map_markers", "map_overlay", "sectors_total", "list_sectors", "list_facilities",
             "sector_trend", "bar_sector", "pie_sectors", "export", "facility_hover"}

\* The get_local_parquet calls of each handler, in the order the handler makes them.
TablesOf(o) ==
    CASE o = "map_markers"     -> <<FAC>>
      [] o = "map_overlay"     -> <<FAC, SEC>>
      [] o = "sectors_total"   -> <<SEC, DIM, FAC>>
      [] o = "list_sectors"    -> <<SEC, DIM>>
      [] o = "list_facilities" -> <<FAC, AGG, SEC>>
      [] o = "sector_trend"    -> <<SEC, DIM, FAC>>
      [] o = "bar_sector"      -> <<SEC, DIM, FAC>>
      [] o = "pie_sectors"     -> <<SEC, DIM, FAC>>
      [] o = "export"          -> <<FAC, SEC>>
      [] o = "facility_hover"  -> <<FAC, SEC>>
      [] OTHER                 -> <<>>

SeqRange(s) == {s[i] : i \in 1..Len(s)}

\* No request is being handled.
NoEvent == [op |-> "none"]
NoQuery == <<>>
NoResponse == [status |-> 0]

\* cors_response(200, {'result': ..., 'messages': []})
Ok(result) == [status |-> 200, result |-> result, messages |-> <<>>]

\* An error body that also carries a result.
Err_WithResult(code, text) ==
    [status |-> code, result |-> <<>>, messages |-> <<[text |-> text, type |-> code]>>]

\* cors_response(code, {'messages': [{'text': ..., 'type': code}]})
Err(code, text) == [status |-> code, messages |-> <<[text |-> text, type |-> code]>>]

\* s3_key = f"{S3_PREFIX}/ghg.{table_name}.parquet"
S3Key(t) == <<"epa_ghg_tables_parquet/ghg.", t, ".parquet">>

\* raise Exception(f"Failed to download {s3_key}: {e}"), e being what download_file raised
FailedToDownload(t) == <<"Failed to download ", S3Key(t), ": ", "e">>

----------------------------------------------------------------------------
(* get_local_parquet, one step per statement that reads or writes shared state *)

InCall == {"check_cache", "check_file", "download"}

\* The table the thread's current get_local_parquet call is about.
Tbl(p) == TablesOf(op[p])[idx[p]]

Calling(p, t) == pc[p] \in InCall /\ Tbl(p) = t

Bump(n) == IF n < 2 THEN n + 1 ELSE 2

Put(fc, t) == [x \in (DOMAIN fc) \cup {t} |-> IF x = t THEN LocalPath(t) ELSE fc[x]]

\* Thread p leaves its call for t. The count of download_file calls covers the calls
\* for t that overlap: it starts afresh once no call for t is left.
Leave(p, t) ==
    fetches' = [fetches EXCEPT ![t] = IF \A q \in Threads \ {p} : ~Calling(q, t) THEN 0 ELSE @]

\* The call of thread p returns path: the handler goes on to its next call, or to its query.
ReturnPath(p, path) ==
    /\ paths' = [paths EXCEPT ![p] = Append(@, path)]
    /\ IF idx[p] < Len(TablesOf(op[p]))
       THEN /\ idx' = [idx EXCEPT ![p] = @ + 1]
            /\ pc' = [pc EXCEPT ![p] = "check_cache"]
       ELSE /\ idx' = idx
            /\ pc' = [pc EXCEPT ![p] = "execute"]

\* A handler is entered (lambda_handler found its route) and reaches its first call.
Request(p) ==
    /\ pc[p] = "idle"
    /\ served < MaxRequests
    /\ served' = served + 1
    /\ \E o \in CacheOps :
        /\ op' = [op EXCEPT ![p] = o]
        /\ idx' = [idx EXCEPT ![p] = 1]
        /\ pc' = [pc EXCEPT ![p] = "check_cache"]
    /\ UNCHANGED <<file_cache, tmp, s3, paths, dl, out, observed, attempts, fetches,
                   event, data, query, response, bodies, calls, abandoned, conn, geo_cache>>

\* A get_local_parquet that does not consult file_cache.
CheckCache_NoLookup(p) ==
    /\ pc[p] = "check_cache"
    /\ pc' = [pc EXCEPT ![p] = "check_file"]
    /\ UNCHANGED <<file_cache, tmp, s3, op, idx, paths, dl, out, observed, attempts, fetches, served,
                   event, data, query, response, bodies, calls, abandoned, conn, geo_cache>>

\* if table_name in file_cache: return file_cache[table_name]
CheckCache(p) ==
    /\ pc[p] = "check_cache"
    /\ IF Tbl(p) \in DOMAIN file_cache
       THEN /\ ReturnPath(p, file_cache[Tbl(p)])
            /\ Leave(p, Tbl(p))
       ELSE /\ pc' = [pc EXCEPT ![p] = "check_file"]
            /\ UNCHANGED <<idx, paths, fetches>>
    /\ UNCHANGED <<file_cache, tmp, s3, op, dl, out, observed, attempts, served,
                   event, data, query, response, bodies, calls, abandoned, conn, geo_cache>>

\* A get_local_parquet under one lock for all tables: it goes no further while a
\* download of another thread is in flight.
CheckFile_GlobalLock(p) ==
    /\ pc[p] = "check_file"
    /\ \A q \in Threads \ {p} : pc[q] # "download"
    /\ IF tmp[Tbl(p)] # 0
       THEN /\ file_cache' = Put(file_cache, Tbl(p))
            /\ ReturnPath(p, LocalPath(Tbl(p)))
            /\ Leave(p, Tbl(p))
            /\ UNCHANGED <<dl, attempts>>
       ELSE /\ pc' = [pc EXCEPT ![p] = "download"]
            /\ dl' = [dl EXCEPT ![p] = s3]
            /\ attempts' = [attempts EXCEPT ![p] = Append(@, Tbl(p))]
            /\ fetches' = [fetches EXCEPT ![Tbl(p)] = Bump(@)]
            /\ UNCHANGED <<file_cache, idx, paths>>
    /\ UNCHANGED <<tmp, s3, op, out, observed, served,
                   event, data, query, response, bodies, calls, abandoned, conn, geo_cache>>

\* A file at a local path that is not a whole object: a transfer that was cut short.
Truncated == MaxVersion + 1

\* A get_local_parquet that takes a local file only when it is whole, and fetches the
\* table when the file is not.
CheckFile_Verifying(p) ==
    /\ pc[p] = "check_file"
    /\ IF tmp[Tbl(p)] # 0 /\ tmp[Tbl(p)] # Truncated
       THEN /\ file_cache' = Put(file_cache, Tbl(p))
            /\ ReturnPath(p, LocalPath(Tbl(p)))
            /\ Leave(p, Tbl(p))
            /\ UNCHANGED <<dl, attempts>>
       ELSE /\ pc' = [pc EXCEPT ![p] = "download"]
            /\ dl' = [dl EXCEPT ![p] = s3]
            /\ attempts' = [attempts EXCEPT ![p] = Append(@, Tbl(p))]
            /\ fetches' = [fetches EXCEPT ![Tbl(p)] = Bump(@)]
            /\ UNCHANGED <<file_cache, idx, paths>>
    /\ UNCHANGED <<tmp, s3, op, out, observed, served,
                   event, data, query, response, bodies, calls, abandoned, conn, geo_cache>>

\* if os.path.exists(local_path): file_cache[table_name] = local_path; return local_path
\* otherwise s3_client.download_file(...) is called and the transfer begins.
CheckFile(p) ==
    /\ pc[p] = "check_file"
    /\ IF tmp[Tbl(p)] # 0
       THEN /\ file_cache' = Put(file_cache, Tbl(p))
            /\ ReturnPath(p, LocalPath(Tbl(p)))
            /\ Leave(p, Tbl(p))
            /\ UNCHANGED <<dl, attempts>>
       ELSE /\ pc' = [pc EXCEPT ![p] = "download"]
            /\ dl' = [dl EXCEPT ![p] = s3]
            /\ attempts' = [attempts EXCEPT ![p] = Append(@, Tbl(p))]
            /\ fetches' = [fetches EXCEPT ![Tbl(p)] = Bump(@)]
            /\ UNCHANGED <<file_cache, idx, paths>>
    /\ UNCHANGED <<tmp, s3, op, out, observed, served,
                   event, data, query, response, bodies, calls, abandoned, conn, geo_cache>>

\* A fetch that is dropped with its request: when the caller has gone away, the
\* transfer leaves no file and records no mapping.
DownloadOk_WithCaller(p) ==
    /\ pc[p] = "download"
    /\ tmp' = IF abandoned[p] THEN tmp ELSE [tmp EXCEPT ![Tbl(p)] = dl[p]]
    /\ file_cache' = IF abandoned[p] THEN file_cache ELSE Put(file_cache, Tbl(p))
    /\ dl' = [dl EXCEPT ![p] = 0]
    /\ ReturnPath(p, LocalPath(Tbl(p)))
    /\ Leave(p, Tbl(p))
    /\ UNCHANGED <<s3, op, out, observed, attempts, served,
                   event, data, query, response, bodies, calls, abandoned, conn, geo_cache>>

\* download_file returns: the object is at local_path; file_cache[table_name] = local_path
DownloadOk(p) ==
    /\ pc[p] = "download"
    /\ tmp' = [tmp EXCEPT ![Tbl(p)] = dl[p]]
    /\ file_cache' = Put(file_cache, Tbl(p))
    /\ dl' = [dl EXCEPT ![p] = 0]
    /\ ReturnPath(p, LocalPath(Tbl(p)))
    /\ Leave(p, Tbl(p))
    /\ UNCHANGED <<s3, op, out, observed, attempts, served,
                   event, data, query, response, bodies, calls, abandoned, conn, geo_cache>>

\* An except clause that records the mapping before it raises.
DownloadFail_Recording(p) ==
    /\ pc[p] = "download"
    /\ dl' = [dl EXCEPT ![p] = 0]
    /\ file_cache' = Put(file_cache, Tbl(p))
    /\ pc' = [pc EXCEPT ![p] = "done"]
    /\ out' = [out EXCEPT ![p] = 500]
    /\ bodies' = [bodies EXCEPT ![p] = Err(500, FailedToDownload(Tbl(p)))]
    /\ Leave(p, Tbl(p))
    /\ UNCHANGED <<tmp, s3, op, idx, paths, observed, attempts, served,
                   event, data, query, response, calls, abandoned, conn, geo_cache>>

\* A handler that goes on to its next table, and to its query, when a download fails.
DownloadFail_Skipping(p) ==
    /\ pc[p] = "download"
    /\ dl' = [dl EXCEPT ![p] = 0]
    /\ IF idx[p] < Len(TablesOf(op[p]))
       THEN /\ idx' = [idx EXCEPT ![p] = @ + 1]
            /\ pc' = [pc EXCEPT ![p] = "check_cache"]
       ELSE /\ idx' = idx
            /\ pc' = [pc EXCEPT ![p] = "execute"]
    /\ Leave(p, Tbl(p))
    /\ UNCHANGED <<file_cache, tmp, s3, op, paths, out, observed, attempts, served,
                   event, data, query, response, bodies, calls, abandoned, conn, geo_cache>>

\* A get_local_parquet that tries again when download_file raises.
DownloadFail_Retrying(p) ==
    /\ pc[p] = "download"
    /\ dl' = [dl EXCEPT ![p] = 0]
    /\ pc' = [pc EXCEPT ![p] = "check_file"]
    /\ UNCHANGED <<file_cache, tmp, s3, op, idx, paths, out, observed, attempts, fetches, served,
                   event, data, query, response, bodies, calls, abandoned, conn, geo_cache>>

\* download_file raises: get_local_parquet raises "Failed to download ...", and the
\* handler's except clause answers 500 with str(e). The transfer leaves nothing at
\* local_path.
DownloadFail(p) ==
    /\ pc[p] = "download"
    /\ dl' = [dl EXCEPT ![p] = 0]
    /\ pc' = [pc EXCEPT ![p] = "done"]
    /\ out' = [out EXCEPT ![p] = 500]
    /\ bodies' = [bodies EXCEPT ![p] = Err(500, FailedToDownload(Tbl(p)))]
    /\ Leave(p, Tbl(p))
    /\ UNCHANGED <<file_cache, tmp, s3, op, idx, paths, observed, attempts, served,
                   event, data, query, response, calls, abandoned, conn, geo_cache>>

\* get_connection() of module m: if conn is None: conn = duckdb.connect(':memory:')
GetConnection(c, m) == [c EXCEPT ![m] = "connection"]

\* db = get_connection(), then
\* db.execute(query): the query reads the local files of the handler's tables, at the
\* paths the handler holds, and the result of the response is shaped from its rows.
Execute(p) ==
    /\ pc[p] = "execute"
    /\ observed' = observed \cup SeqRange(TablesOf(op[p]))
    /\ out' = [out EXCEPT ![p] = 200]
    /\ bodies' = [bodies EXCEPT ![p] = Ok([read_parquet |-> paths[p]])]
    /\ pc' = [pc EXCEPT ![p] = "done"]
    /\ conn' = GetConnection(conn, "lambda_function")
    /\ UNCHANGED <<file_cache, tmp, s3, op, idx, paths, dl, attempts, fetches, served,
                   event, data, query, response, calls, abandoned, geo_cache>>

\* The response is returned; the thread is free for the next request.
Respond(p) ==
    /\ pc[p] = "done"
    /\ pc' = [pc EXCEPT ![p] = "idle"]
    /\ op' = [op EXCEPT ![p] = "none"]
    /\ idx' = [idx EXCEPT ![p] = 0]
    /\ paths' = [paths EXCEPT ![p] = <<>>]
    /\ out' = [out EXCEPT ![p] = 0]
    /\ bodies' = [bodies EXCEPT ![p] = NoResponse]
    /\ attempts' = [attempts EXCEPT ![p] = <<>>]
    /\ abandoned' = [abandoned EXCEPT ![p] = FALSE]
    /\ UNCHANGED <<file_cache, tmp, s3, dl, observed, fetches, served,
                   event, data, query, response, calls, conn, geo_cache>>

\* The objects in the bucket are replaced by newer ones.
RemoteReplace ==
    /\ s3 < MaxVersion
    /\ s3' = s3 + 1
    /\ UNCHANGED <<file_cache, tmp, pc, op, idx, paths, dl, out, observed, attempts, fetches, served,
                   event, data, query, response, bodies, calls, abandoned, conn, geo_cache>>

\* The process as it starts: nothing cached, no local file, every thread idle.
ColdStart ==
    /\ file_cache = <<>>
    /\ tmp = [t \in Tables |-> 0]
    /\ s3 = 1
    /\ pc = [p \in Threads |-> "idle"]
    /\ op = [p \in Threads |-> "none"]
    /\ idx = [p \in Threads |-> 0]
    /\ paths = [p \in Threads |-> <<>>]
    /\ dl = [p \in Threads |-> 0]
    /\ out = [p \in Threads |-> 0]
    /\ observed = {}
    /\ attempts = [p \in Threads |-> <<>>]
    /\ fetches = [t \in Tables |-> 0]
    /\ served = 0
    /\ bodies = [p \in Threads |-> NoResponse]
    /\ calls = <<>>
    /\ abandoned = [p \in Threads |-> FALSE]
    /\ conn = [m \in {"lambda_function", "handler"} |-> "None"]
    /\ geo_cache = <<>>

Init ==
    /\ ColdStart
    /\ event = NoEvent
    /\ data = <<>>
    /\ query = NoQuery
    /\ response = NoResponse

Next ==
    \/ \E p \in Threads : Request(p)
    \/ \E p \in Threads : CheckCache(p)
    \/ \E p \in Threads : CheckFile(p)
    \/ \E p \in Threads : DownloadOk(p)
    \/ \E p \in Threads : DownloadFail(p)
    \/ \E p \in Threads : Execute(p)
    \/ \E p \in Threads : Respond(p)
    \/ RemoteReplace

Spec == Init /\ [][Next]_vars

----------------------------------------------------------------------------
(* The snapshot cache: claims *)

\* The thread's call returns a path in this step.
Returns(p) == Len(paths'[p]) = Len(paths[p]) + 1

\* C1: for a table that is not yet cached, the calls of get_local_parquet that overlap
\* in one process begin download_file for it once, not more, and every path returned
\* for a table is the same path.
C1_OneFetchPerTable ==
    /\ \A t \in Tables : fetches[t] <= 1
    /\ \A p, q \in Threads : \A i \in DOMAIN paths[p], j \in DOMAIN paths[q] :
          TablesOf(op[p])[i] = TablesOf(op[q])[j] => paths[p][i] = paths[q][j]

\* C2: when download_file fails, get_local_parquet raises (the handler answers 500) and
\* the failing call leaves file_cache and the local file as they were; and while a table
\* has no entry and no local file, a call returns a path only by completing a fetch of
\* its own, so the acquire after a failure fetches anew.
C2_FailedFetchRecordsNothing ==
    [][\A p \in Threads :
          /\ (pc[p] = "download" /\ pc'[p] = "done") =>
                (out'[p] = 500 /\ file_cache' = file_cache /\ tmp' = tmp /\ paths'[p] = paths[p])
          /\ (pc[p] \in InCall /\ Returns(p) /\ Tbl(p) \notin DOMAIN file_cache /\ tmp[Tbl(p)] = 0) =>
                (pc[p] = "download" /\ Tbl(p) \in SeqRange(attempts[p]))]_vars

\* C2 witness: a fetch of a table has failed (its thread holds the 500), the table has
\* no entry, and a later call, the only one now in progress for the table, is fetching it.
C2_RetryAfterFailure ==
    \E p, q \in Threads :
        /\ p # q
        /\ out[q] = 500 /\ pc[q] = "done"
        /\ pc[p] = "download" /\ Tbl(p) = Tbl(q)
        /\ fetches[Tbl(p)] = 1
        /\ Tbl(p) \notin DOMAIN file_cache

\* C3: an entry of file_cache is never changed or removed, and a call that finds its
\* table in file_cache returns the recorded path, which is the table's local path, and
\* begins no download, whatever the version of the remote object.
C3_CachedPathIsReused ==
    [][/\ \A t \in DOMAIN file_cache : t \in DOMAIN file_cache' /\ file_cache'[t] = file_cache[t]
       /\ \A p \in Threads :
            (pc[p] = "check_cache" /\ Tbl(p) \in DOMAIN file_cache /\ <<pc[p], idx[p]>>' # <<pc[p], idx[p]>>) =>
                /\ paths'[p] = Append(paths[p], LocalPath(Tbl(p)))
                /\ pc'[p] \notin {"check_file", "download"} \/ idx'[p] # idx[p]
                /\ attempts'[p] = attempts[p]
                /\ dl'[p] = 0
                /\ tmp' = tmp]_vars

\* C3 witness: a request that made no download_file call holds the path of a table
\* whose remote object has been replaced since the local file was fetched.
C3_HitAfterRemoteChange ==
    \E p \in Threads :
        /\ pc[p] = "execute"
        /\ attempts[p] = <<>>
        /\ \E i \in DOMAIN paths[p] :
              /\ paths[p][i] = LocalPath(TablesOf(op[p])[i])
              /\ tmp[TablesOf(op[p])[i]] # 0
              /\ tmp[TablesOf(op[p])[i]] < s3

\* C4: the version of a table's local file never changes once a query of the process
\* has read it.
C4_SnapshotNeverChanges ==
    [][\A t \in observed : tmp'[t] = tmp[t]]_vars

\* C5: a caller that finds a fetch of its table in flight waits for it: no thread
\* begins download_file for a table while another thread's download_file for that
\* table is in flight.
C5_CallersWaitForFirstFetch ==
    [][\A p \in Threads :
          (pc[p] = "check_file" /\ pc'[p] = "download") =>
              \A q \in Threads \ {p} : ~(pc[q] = "download" /\ Tbl(q) = Tbl(p))]_vars

----------------------------------------------------------------------------
(* The execution engine: what db.execute(query).fetchall() computes for the      *)
(* queries the handlers compose. A query is held as its clauses; a row of a join *)
(* is a function from the aliases of the query to rows of their tables.          *)
(* Years are the four-digit text of the year column, held as the number it       *)
(* spells; emissions are whole metric tons.                                      *)

\* SQL NULL in a text column and in a numeric column (Python None).
Null == "NULL"
NullNum == -1

NumericCols == {"year", "co2e_emission", "sector_id", "total_emission"}

NullOf(c) == IF c \in NumericCols THEN NullNum ELSE Null

Col(a, c) == <<a, c>>
NoRef == <<>>

\* A predicate between a column and a literal, and one between two columns.
Lit(a, c, cmp, v) == [l |-> <<a, c>>, cmp |-> cmp, lit |-> TRUE, r |-> v]
ColEq(a, c, b, d) == [l |-> <<a, c>>, cmp |-> "=", lit |-> FALSE, r |-> <<b, d>>]

Val(env, ref) == env[ref[1]][ref[2]]

IsNull(env, ref) == Val(env, ref) = NullOf(ref[2])

\* SQL comparison: a comparison with NULL is not true.
Holds(pred, env) ==
    /\ ~IsNull(env, pred.l)
    /\ pred.lit \/ ~IsNull(env, pred.r)
    /\ LET x == Val(env, pred.l)
           y == IF pred.lit THEN pred.r ELSE Val(env, pred.r)
       IN  CASE pred.cmp = "="  -> x = y
             [] pred.cmp = "!=" -> x # y
             [] OTHER           -> FALSE

AllHold(preds, env) == \A i \in DOMAIN preds : Holds(preds[i], env)

Columns(t) ==
    CASE t = SEC -> {"facility_id", "year", "sector_name", "sector_type", "gas_name", "co2e_emission"}
      [] t = FAC -> {"facility_id", "year", "state", "facility_name", "latitude", "longitude"}
      [] t = DIM -> {"sector_id", "sector_name"}
      [] t = AGG -> {"pgm_sys_id", "year", "total_emission"}

NullRow(t) == [c \in Columns(t) |-> NullOf(c)]

\* envs JOIN j: INNER keeps the matching pairs, LEFT also keeps an unmatched left row.
JoinOne(envs, j, db) ==
    UNION { LET m == { r \in db[j.table] : AllHold(j.on, env @@ (j.alias :> r)) }
            IN  IF m = {} /\ j.kind = "LEFT"
                THEN { env @@ (j.alias :> NullRow(j.table)) }
                ELSE { env @@ (j.alias :> r) : r \in m }
          : env \in envs }

RECURSIVE JoinAll(_, _, _)
JoinAll(envs, joins, db) ==
    IF joins = <<>> THEN envs
    ELSE JoinAll(JoinOne(envs, Head(joins), db), Tail(joins), db)

\* FROM ... JOIN ... WHERE ...
Selected(q, db) ==
    { env \in JoinAll({ (q.from.alias :> r) : r \in db[q.from.table] }, q.joins, db) :
        AllHold(q.where, env) }

\* SUM(CAST(col AS DOUBLE)): NULL values are skipped; no value at all gives NULL.
RECURSIVE SumInt(_, _)
SumInt(envs, ref) ==
    IF envs = {} THEN 0
    ELSE LET e == CHOOSE x \in envs : TRUE
         IN  (IF IsNull(e, ref) THEN 0 ELSE Val(e, ref)) + SumInt(envs \ {e}, ref)

Sum(envs, ref) ==
    IF \A e \in envs : IsNull(e, ref) THEN NullNum ELSE SumInt(envs, ref)

\* COUNT(DISTINCT col)
CountDistinct(envs, ref) == Cardinality({ Val(e, ref) : e \in { x \in envs : ~IsNull(x, ref) } })

\* MAX(CAST(col AS INTEGER))
Max(envs, ref) ==
    LET vs == { Val(e, ref) : e \in { x \in envs : ~IsNull(x, ref) } }
    IN  IF vs = {} THEN NullNum ELSE CHOOSE v \in vs : \A w \in vs : w <= v

KeyOf(env, refs) == [i \in DOMAIN refs |-> Val(env, refs[i])]

\* COALESCE(x, 0)
Coalesce(x) == IF x = NullNum THEN 0 ELSE x

\* GROUP BY q.group with the aggregates the handlers select; HAVING total_emissions > 0
\* where the query has it. A result row carries n, the number of rows it stands for.
Grouped(q, db) ==
    LET sel  == Selected(q, db)
        keys == { KeyOf(e, q.group) : e \in sel }
        rows == { LET g == { e \in sel : KeyOf(e, q.group) = k }
                  IN  [key   |-> k,
                       total |-> IF q.coalesce THEN Coalesce(Sum(g, q.sum)) ELSE Sum(g, q.sum),
                       count |-> IF q.count = NoRef THEN 0 ELSE CountDistinct(g, q.count),
                       max   |-> IF q.max = NoRef THEN NullNum ELSE Max(g, q.max),
                       n     |-> 1]
                : k \in keys }
    IN  IF q.having THEN { r \in rows : r.total > 0 } ELSE rows

\* ORDER BY: a sort term is the total or a column of the key, ascending or descending.
SortVal(r, o) == IF o.by = "total" THEN r.total ELSE r.key[o.i]

RECURSIVE Before(_, _, _)
Before(a, b, order) ==
    IF order = <<>> THEN FALSE
    ELSE LET o == Head(order)
             x == SortVal(a, o)
             y == SortVal(b, o)
         IN  IF x = y THEN Before(a, b, Tail(order))
             ELSE IF o.desc THEN x > y ELSE x < y

\* The orders in which the engine may return rows under ORDER BY order: rows that
\* the sort terms do not tell apart come in any order.
Orderings(rows, order) ==
    { s \in [1..Cardinality(rows) -> rows] :
        /\ \A i, j \in DOMAIN s : i # j => s[i] # s[j]
        /\ \A i, j \in DOMAIN s : i < j => ~Before(s[j], s[i], order) }

\* The number of rows a result holds.
RECURSIVE Rows(_)
Rows(s) == IF s = <<>> THEN 0 ELSE Head(s).n + Rows(Tail(s))

\* An engine that ignores LIMIT.
Take_All(s, k) == s

\* LIMIT k
RECURSIVE Take(_, _)
Take(s, k) ==
    IF s = <<>> \/ k <= 0 THEN <<>>
    ELSE IF Head(s).n <= k THEN <<Head(s)>> \o Take(Tail(s), k - Head(s).n)
    ELSE <<[Head(s) EXCEPT !.n = k]>>

\* OFFSET k
RECURSIVE Skip(_, _)
Skip(s, k) ==
    IF s = <<>> THEN <<>>
    ELSE IF k <= 0 THEN s
    ELSE IF Head(s).n <= k THEN Skip(Tail(s), k - Head(s).n)
    ELSE <<[Head(s) EXCEPT !.n = @ - k]>> \o Tail(s)

\* ORDER BY, then OFFSET and LIMIT where the query has them: the results the engine may return.
Arrange(q, rows) ==
    { LET a == IF q.offset = <<>> THEN s ELSE Skip(s, q.offset[1])
      IN  IF q.limit = <<>> THEN a ELSE Take(a, q.limit[1])
      : s \in Orderings(rows, q.order) }

\* fetchall() of a grouped query
Fetch(q, db) == Arrange(q, Grouped(q, db))

----------------------------------------------------------------------------
(* Requests and responses *)

\* dict.get(key, default) on the JSON body, the query string, the path parameters
Get(d, k, default) == IF k \in DOMAIN d THEN d[k] ELSE default

\* Python truth of a string or None
Truthy(v) == v # "" /\ v # Null

\* str.lower() on the query-string flags
Lower(s) ==
    CASE s = "TRUE" -> "true"
      [] s = "True" -> "true"
      [] OTHER      -> s

\* int(s) on the numerals requests and tables carry; anything else raises ValueError
ParseInt(s) ==
    CASE s = "0"  -> [ok |-> TRUE, v |-> 0]
      [] s = "1"  -> [ok |-> TRUE, v |-> 1]
      [] s = "2"  -> [ok |-> TRUE, v |-> 2]
      [] s = "3"  -> [ok |-> TRUE, v |-> 3]
      [] s = "9"  -> [ok |-> TRUE, v |-> 9]
      [] s = "-1" -> [ok |-> TRUE, v |-> -1]
      [] OTHER    -> [ok |-> FALSE, v |-> 0]

DefaultYear == 2023
MMT_DIVISOR == 1000000

\* round(x / d), Python 3: to the nearest integer, a tie to the even one
RoundHalfEven(x, d) ==
    LET q == x \div d
        r == x % d
    IN  IF 2 * r < d THEN q
        ELSE IF 2 * r > d THEN q + 1
        ELSE IF q % 2 = 0 THEN q ELSE q + 1

\* A conversion that counts every started million.
MMT_Started(v) == IF v = NullNum THEN 0 ELSE (v \div MMT_DIVISOR) + 1

\* round(float(v) / MMT_DIVISOR) if v else 0
MMT(v) == IF v = NullNum \/ v = 0 THEN 0 ELSE RoundHalfEven(v, MMT_DIVISOR)

\* round(float(v)) if v else 0, and float(v) if v else 0, on whole tons
Tons(v) == IF v = NullNum THEN 0 ELSE v

RECURSIVE SeqSum(_)
SeqSum(s) == IF s = <<>> THEN 0 ELSE Head(s) + SeqSum(Tail(s))

Year(ev) == Get(ev.body, "reportingYear", DefaultYear)
State(ev) == Get(ev.body, "state", "US")

----------------------------------------------------------------------------
(* The queries the handlers compose *)

FacilityJoin ==
    [kind |-> "INNER", table |-> FAC, alias |-> "f",
     on |-> <<ColEq("e", "facility_id", "f", "facility_id"), ColEq("e", "year", "f", "year")>>]

\* A composition that joins the facilities whatever the state is.
StateJoin_Always(state) == <<FacilityJoin>>

\* if state and state != 'US': state_join, state_filter
StateJoin(state) == IF Truthy(state) /\ state # "US" THEN <<FacilityJoin>> ELSE <<>>

StateFilter(state) ==
    IF Truthy(state) /\ state # "US" THEN <<Lit("f", "state", "=", state)>> ELSE <<>>

DimJoin ==
    [kind |-> "LEFT", table |-> DIM, alias |-> "d",
     on |-> <<ColEq("e", "sector_name", "d", "sector_name")>>]

NotBiogenic(a) == Lit(a, "gas_name", "!=", "Biogenic CO2")

ByTotalDesc == <<[by |-> "total", i |-> 0, desc |-> TRUE]>>

\* handle_sectors_total_emissions and handle_bar_sector compose the same text
SectorQuery(year, state) ==
    [from   |-> [table |-> SEC, alias |-> "e"],
     joins  |-> <<DimJoin>> \o StateJoin(state),
     where  |-> <<Lit("e", "year", "=", year), Lit("e", "sector_type", "=", "E"), NotBiogenic("e")>>
                \o StateFilter(state),
     group  |-> <<Col("e", "sector_name")>>,
     sum    |-> Col("e", "co2e_emission"), coalesce |-> FALSE,
     count  |-> Col("e", "facility_id"),
     max    |-> Col("d", "sector_id"),
     having |-> FALSE,
     order  |-> ByTotalDesc, limit |-> <<>>, offset |-> <<>>]

\* handle_list_sectors
ListSectorsQuery(year) ==
    [from   |-> [table |-> SEC, alias |-> "e"],
     joins  |-> <<DimJoin>>,
     where  |-> <<Lit("e", "year", "=", year), Lit("e", "sector_type", "=", "E"), NotBiogenic("e")>>,
     group  |-> <<Col("e", "sector_name")>>,
     sum    |-> Col("e", "co2e_emission"), coalesce |-> FALSE,
     count  |-> Col("e", "facility_id"),
     max    |-> Col("d", "sector_id"),
     having |-> FALSE,
     order  |-> ByTotalDesc, limit |-> <<>>, offset |-> <<>>]

\* handle_pie_sectors_emissions: if level in ['2', '3'] and sector1: sector_filter
PieQuery(year, state, level, sector1) ==
    [from   |-> [table |-> SEC, alias |-> "e"],
     joins  |-> <<DimJoin>> \o StateJoin(state),
     where  |-> <<Lit("e", "year", "=", year), Lit("e", "sector_type", "=", "E"), NotBiogenic("e")>>
                \o StateFilter(state)
                \o (IF level \in {"2", "3"} /\ Truthy(sector1)
                    THEN <<Lit("e", "sector_name", "=", sector1)>> ELSE <<>>),
     group  |-> <<Col("e", "sector_name")>>,
     sum    |-> Col("e", "co2e_emission"), coalesce |-> FALSE,
     count  |-> NoRef,
     max    |-> Col("d", "sector_id"),
     having |-> FALSE,
     order  |-> ByTotalDesc, limit |-> <<>>, offset |-> <<>>]

\* handle_sector_trend: every year; the sector predicate when the sector id resolved
TrendQuery(state, sector_name) ==
    [from   |-> [table |-> SEC, alias |-> "e"],
     joins  |-> StateJoin(state),
     where  |-> <<Lit("e", "sector_type", "=", "E"), NotBiogenic("e")>>
                \o StateFilter(state)
                \o (IF Truthy(sector_name) THEN <<Lit("e", "sector_name", "=", sector_name)>> ELSE <<>>),
     group  |-> <<Col("e", "year")>>,
     sum    |-> Col("e", "co2e_emission"), coalesce |-> FALSE,
     count  |-> NoRef,
     max    |-> NoRef,
     having |-> FALSE,
     order  |-> <<[by |-> "key", i |-> 1, desc |-> FALSE]>>, limit |-> <<>>, offset |-> <<>>]

\* handle_map_overlay: no ORDER BY
OverlayQuery(year, state, data_source) ==
    [from   |-> [table |-> FAC, alias |-> "f"],
     joins  |-> <<[kind |-> "LEFT", table |-> SEC, alias |-> "s",
                   on |-> <<ColEq("f", "facility_id", "s", "facility_id"), ColEq("f", "year", "s", "year")>>]>>,
     where  |-> <<Lit("f", "year", "=", year),
                  Lit("f", "latitude", "!=", ""), Lit("f", "longitude", "!=", ""),
                  Lit("s", "sector_type", "=", data_source), NotBiogenic("s")>>
                \o (IF Truthy(state) /\ state # "US" THEN <<Lit("f", "state", "=", state)>> ELSE <<>>),
     group  |-> <<Col("f", "facility_id"), Col("f", "latitude"), Col("f", "longitude")>>,
     sum    |-> Col("s", "co2e_emission"), coalesce |-> FALSE,
     count  |-> NoRef,
     max    |-> NoRef,
     having |-> FALSE,
     order  |-> <<>>, limit |-> <<>>, offset |-> <<>>]

ExportLimit == 25000

ByYearThenTotalDesc == <<[by |-> "key", i |-> 1, desc |-> TRUE], [by |-> "total", i |-> 0, desc |-> TRUE]>>

\* handle_export: the all-years text (year first in the key, HAVING, LIMIT) or the single-year text
ExportQuery(year, state, data_source, all_years) ==
    [from   |-> [table |-> FAC, alias |-> "f"],
     joins  |-> <<[kind |-> "LEFT", table |-> SEC, alias |-> "s",
                   on |-> <<ColEq("f", "facility_id", "s", "facility_id"), ColEq("f", "year", "s", "year"),
                            Lit("s", "sector_type", "=", data_source), NotBiogenic("s")>>]>>,
     where  |-> (IF all_years THEN <<>> ELSE <<Lit("f", "year", "=", year)>>)
                \o (IF Truthy(state) /\ state # "US" THEN <<Lit("f", "state", "=", state)>> ELSE <<>>),
     group  |-> (IF all_years THEN <<Col("f", "year")>> ELSE <<>>)
                \o <<Col("f", "facility_id"), Col("f", "facility_name"), Col("f", "state"),
                     Col("f", "latitude"), Col("f", "longitude")>>,
     sum    |-> Col("s", "co2e_emission"), coalesce |-> TRUE,
     count  |-> NoRef,
     max    |-> NoRef,
     having |-> all_years,
     order  |-> IF all_years THEN ByYearThenTotalDesc ELSE ByTotalDesc,
     limit  |-> IF all_years THEN <<ExportLimit>> ELSE <<>>, offset |-> <<>>]

\* An emissions_query without its ORDER BY.
HoverEmissionsQuery_Unordered(facility_id, year) ==
    [from   |-> [table |-> SEC, alias |-> "e"],
     joins  |-> <<>>,
     where  |-> <<Lit("e", "facility_id", "=", facility_id), Lit("e", "year", "=", year)>>,
     group  |-> <<Col("e", "gas_name")>>,
     sum    |-> Col("e", "co2e_emission"), coalesce |-> FALSE,
     count  |-> NoRef,
     max    |-> NoRef,
     having |-> FALSE,
     order  |-> <<>>, limit |-> <<>>, offset |-> <<>>]

\* handle_facility_hover: emissions_query, the emissions by gas of one facility in one year
HoverEmissionsQuery(facility_id, year) ==
    [from   |-> [table |-> SEC, alias |-> "e"],
     joins  |-> <<>>,
     where  |-> <<Lit("e", "facility_id", "=", facility_id), Lit("e", "year", "=", year)>>,
     group  |-> <<Col("e", "gas_name")>>,
     sum    |-> Col("e", "co2e_emission"), coalesce |-> FALSE,
     count  |-> NoRef,
     max    |-> NoRef,
     having |-> FALSE,
     order  |-> ByTotalDesc, limit |-> <<>>, offset |-> <<>>]

\* handler.py, handle_sectors_total_emissions
H_SectorQuery(year) ==
    [from   |-> [table |-> SEC, alias |-> "e"],
     joins  |-> <<>>,
     where  |-> <<Lit("e", "year", "=", year), Lit("e", "sector_type", "=", "E")>>,
     group  |-> <<Col("e", "sector_name")>>,
     sum    |-> Col("e", "co2e_emission"), coalesce |-> FALSE,
     count  |-> Col("e", "facility_id"),
     max    |-> NoRef,
     having |-> FALSE,
     order  |-> ByTotalDesc, limit |-> <<>>, offset |-> <<>>]

----------------------------------------------------------------------------
(* The handlers: the query composed and the response shaped, for each result the *)
(* engine may return. The numbers with thousands separators are held as numbers. *)

Outcome(q, r) == [query |-> q, response |-> r]

\* A handle_sectors_total_emissions that adds up the rounded values of the sectors.
SectorsTotal_RoundedFirst(ev, db) ==
    LET q == SectorQuery(Year(ev), State(ev))
    IN  { Outcome(q, Ok([sectorEmissionDetails |->
                             [i \in DOMAIN rows |->
                                 [sectorId       |-> IF rows[i].max = 0 THEN NullNum ELSE rows[i].max,
                                  sectorName     |-> rows[i].key[1],
                                  totalEmissions |-> MMT(rows[i].total),
                                  facilityCount  |-> rows[i].count]],
                         totalReportedEmission |-> SeqSum([i \in DOMAIN rows |-> MMT(rows[i].total)]),
                         totalNumberOfFacilities |-> SeqSum([i \in DOMAIN rows |-> rows[i].count])]))
          : rows \in Fetch(q, db) }

\* handle_sectors_total_emissions
SectorsTotal(ev, db) ==
    LET q == SectorQuery(Year(ev), State(ev))
    IN  { Outcome(q, Ok([sectorEmissionDetails |->
                             [i \in DOMAIN rows |->
                                 [sectorId       |-> IF rows[i].max = 0 THEN NullNum ELSE rows[i].max,
                                  sectorName     |-> rows[i].key[1],
                                  totalEmissions |-> MMT(rows[i].total),
                                  facilityCount  |-> rows[i].count]],
                         totalReportedEmission |->
                             RoundHalfEven(SeqSum([i \in DOMAIN rows |-> Tons(rows[i].total)]), MMT_DIVISOR),
                         totalNumberOfFacilities |-> SeqSum([i \in DOMAIN rows |-> rows[i].count])]))
          : rows \in Fetch(q, db) }

\* handle_list_sectors
ListSectors(ev, db) ==
    LET q == ListSectorsQuery(Year(ev))
    IN  { Outcome(q, Ok([rows |-> [i \in DOMAIN rows |->
                                      [sector     |-> rows[i].key[1],
                                       facilities |-> rows[i].count,
                                       totalReportedEmissions |-> MMT(rows[i].total)]]]))
          : rows \in Fetch(q, db) }

\* handle_sector_trend: the sector names the lookup of sector_id may give (None: no filter)
TrendSectorNames(ev, db) ==
    LET sid == ev.args.sector_id
        p   == ParseInt(sid)
        found == { r.sector_name : r \in { d \in db[DIM] : d.sector_id = p.v } }
    IN  IF Truthy(sid) /\ sid # "0" /\ p.ok /\ found # {} THEN found ELSE {Null}

\* A handle_sector_trend whose int(sector_id) is not guarded: ValueError reaches the
\* handler's except clause.
SectorTrend_Raising(ev, db) ==
    IF Truthy(ev.args.sector_id) /\ ~ParseInt(ev.args.sector_id).ok
    THEN { Outcome(NoQuery, Err(500, "invalid literal for int() with base 10")) }
    ELSE UNION { LET q == TrendQuery(State(ev), name)
                 IN  { Outcome(q, Ok([categories |-> [i \in DOMAIN rows |-> rows[i].key[1]],
                                      name       |-> IF Truthy(name) THEN <<name, " Emissions">>
                                                     ELSE <<"Total GHG Emissions">>,
                                      data       |-> [i \in DOMAIN rows |-> MMT(rows[i].total)]]))
                       : rows \in Fetch(q, db) }
               : name \in TrendSectorNames(ev, db) }

SectorTrend(ev, db) ==
    UNION { LET q == TrendQuery(State(ev), name)
            IN  { Outcome(q, Ok([categories |-> [i \in DOMAIN rows |-> rows[i].key[1]],
                                 name       |-> IF Truthy(name) THEN <<name, " Emissions">>
                                                ELSE <<"Total GHG Emissions">>,
                                 data       |-> [i \in DOMAIN rows |-> MMT(rows[i].total)]]))
                  : rows \in Fetch(q, db) }
          : name \in TrendSectorNames(ev, db) }

\* handle_bar_sector
BarSector(ev, db) ==
    LET q == SectorQuery(Year(ev), State(ev))
    IN  { Outcome(q, Ok([categories |-> [i \in DOMAIN rows |-> rows[i].key[1]],
                         data       |-> [i \in DOMAIN rows |-> MMT(rows[i].total)]]))
          : rows \in Fetch(q, db) }

\* handle_pie_sectors_emissions
PieSectors(ev, db) ==
    LET q == PieQuery(Year(ev), State(ev), Get(ev.args, "level", Null), Get(ev.body, "sector1", ""))
    IN  { Outcome(q, Ok([data |-> [i \in DOMAIN rows |->
                                      [name |-> rows[i].key[1],
                                       y    |-> MMT(rows[i].total),
                                       id   |-> IF rows[i].max = 0 THEN NullNum ELSE rows[i].max]]]))
          : rows \in Fetch(q, db) }

\* handle_map_overlay: tons, not MMT; id is int(facility_id)
MapOverlay(ev, db) ==
    LET q == OverlayQuery(Year(ev), State(ev), Get(ev.body, "dataSource", "E"))
    IN  { Outcome(q, Ok([i \in DOMAIN rows |->
                            [id        |-> ParseInt(rows[i].key[1]).v,
                             lt        |-> rows[i].key[2],
                             ln        |-> rows[i].key[3],
                             emissions |-> IF rows[i].total = 0 THEN 0 ELSE Tons(rows[i].total)]]))
          : rows \in Fetch(q, db) }

\* handle_export: the data rows of the CSV (the key columns, then the total in tons)
Export(ev, db) ==
    LET all_years == Lower(Get(ev.params, "allReportingYears", "false")) = "true"
        q == ExportQuery(Year(ev), State(ev), Get(ev.body, "dataSource", "E"), all_years)
    IN  { Outcome(q, [status |-> 200,
                      csv    |-> [i \in DOMAIN rows |->
                                     [cols |-> rows[i].key, total |-> Tons(rows[i].total), n |-> rows[i].n]]])
          : rows \in Fetch(q, db) }

\* A fallback that takes the row of the earliest year.
HoverFacility_Oldest(id, year, db) ==
    LET exact == { r \in db[FAC] : r.facility_id = id /\ r.year = year }
        any   == { r \in db[FAC] : r.facility_id = id }
    IN  IF exact # {} THEN exact
        ELSE { r \in any : \A o \in any : o.year >= r.year }

\* handle_facility_hover: the facility of that id in that year, else its latest year
HoverFacility(id, year, db) ==
    LET exact == { r \in db[FAC] : r.facility_id = id /\ r.year = year }
        any   == { r \in db[FAC] : r.facility_id = id }
    IN  IF exact # {} THEN exact
        ELSE { r \in any : \A o \in any : o.year <= r.year }

FacilityHover(ev, db) ==
    LET id   == Get(ev.params, "id", Null)
        year == ev.args.year
        q    == HoverEmissionsQuery(id, year)
    IN  IF ~Truthy(id) THEN { Outcome(NoQuery, Err(400, "Missing facility id")) }
        ELSE IF HoverFacility(id, year, db) = {} THEN { Outcome(NoQuery, Err(404, "Facility not found")) }
        ELSE { Outcome(q, Ok([facilityTipDto |-> [facilityId   |-> ParseInt(f.facility_id).v,
                                                  facilityName |-> f.facility_name,
                                                  state        |-> f.state,
                                                  latitude     |-> IF Truthy(f.latitude) THEN f.latitude
                                                                   ELSE Null],
                              emissions |-> [i \in DOMAIN rows |->
                                                [type |-> rows[i].key[1], quantity |-> Tons(rows[i].total)]]]))
               : f \in HoverFacility(id, year, db), rows \in Fetch(q, db) }

\* handler.py, handle_sectors_total_emissions: tons as a float, no rounding
H_SectorsTotal(ev, db) ==
    LET q == H_SectorQuery(Year(ev))
    IN  { Outcome(q, Ok([i \in DOMAIN rows |->
                            [sectorName     |-> rows[i].key[1],
                             totalEmissions |-> Tons(rows[i].total),
                             facilityCount  |-> rows[i].count]]))
          : rows \in Fetch(q, db) }

\* What the handler of the event's operation may compose and return on the tables db.
Outcomes(ev, db) ==
    CASE ev.op = "sectors_total"   -> SectorsTotal(ev, db)
      [] ev.op = "list_sectors"    -> ListSectors(ev, db)
      [] ev.op = "sector_trend"    -> SectorTrend(ev, db)
      [] ev.op = "bar_sector"      -> BarSector(ev, db)
      [] ev.op = "pie_sectors"     -> PieSectors(ev, db)
      [] ev.op = "map_overlay"     -> MapOverlay(ev, db)
      [] ev.op = "export"          -> Export(ev, db)
      [] ev.op = "facility_hover"  -> FacilityHover(ev, db)
      [] ev.op = "H_sectors_total" -> H_SectorsTotal(ev, db)

\* The handler answers: the query it composed and one of the responses it may return.
\* The handler called get_connection() unless it returned its 400 first.
Answer(outcomes) ==
    /\ response = NoResponse
    /\ \E x \in outcomes :
          /\ query' = x.query
          /\ response' = x.response
          /\ conn' = IF x.response.status = 400 THEN conn
                     ELSE GetConnection(conn, IF event.op = "H_sectors_total" THEN "handler"
                                              ELSE "lambda_function")
    /\ UNCHANGED <<file_cache, tmp, s3, pc, op, idx, paths, dl, out, observed, attempts, fetches, served,
                   event, data, bodies, calls, abandoned, geo_cache>>

handle_sectors_total_emissions ==
    /\ event.op = "sectors_total"
    /\ Answer(SectorsTotal(event, data))

handle_list_sectors ==
    /\ event.op = "list_sectors"
    /\ Answer(ListSectors(event, data))

handle_sector_trend ==
    /\ event.op = "sector_trend"
    /\ Answer(SectorTrend(event, data))

handle_bar_sector ==
    /\ event.op = "bar_sector"
    /\ Answer(BarSector(event, data))

handle_pie_sectors_emissions ==
    /\ event.op = "pie_sectors"
    /\ Answer(PieSectors(event, data))

handle_map_overlay ==
    /\ event.op = "map_overlay"
    /\ Answer(MapOverlay(event, data))

handle_export ==
    /\ event.op = "export"
    /\ Answer(Export(event, data))

handle_facility_hover ==
    /\ event.op = "facility_hover"
    /\ Answer(FacilityHover(event, data))

H_handle_sectors_total_emissions ==
    /\ event.op = "H_sectors_total"
    /\ Answer(H_SectorsTotal(event, data))

----------------------------------------------------------------------------
(* SpecQuery: requests and datasets *)

MaxSecRows == 2

NoParams == <<>>

YearParts == {NoParams, [reportingYear |-> 2022]}
StateParts == {NoParams, [state |-> "US"], [state |-> "TX"], [state |-> ""]}

Request_(o, body, params, args) == [op |-> o, body |-> body, params |-> params, args |-> args]

QueryEvents ==
    { Request_(o, y @@ s, NoParams, NoParams) :
        o \in {"sectors_total", "bar_sector", "map_overlay"}, y \in YearParts, s \in StateParts }
    \cup { Request_("list_sectors", y, NoParams, NoParams) : y \in YearParts }
    \cup { Request_("H_sectors_total", y, NoParams, NoParams) : y \in YearParts }
    \cup { Request_("pie_sectors", y @@ s @@ s1, NoParams, lv) :
             y \in YearParts, s \in StateParts, s1 \in {NoParams, [sector1 |-> "Waste"]},
             lv \in {NoParams, [level |-> "2"]} }
    \cup { Request_("sector_trend", y @@ s, NoParams, [sector_id |-> sid, level |-> "1"]) :
             y \in YearParts, s \in StateParts, sid \in {"", "0", "2", "9", "abc", "trend"} }
    \cup { Request_("export", y @@ s, a, NoParams) :
             y \in YearParts, s \in StateParts, a \in {NoParams, [allReportingYears |-> "True"]} }
    \cup { Request_("facility_hover", NoParams, i, [year |-> yr]) :
             i \in {NoParams, [id |-> "1"], [id |-> "2"], [id |-> "3"]}, yr \in {2021, 2022, 2023} }

Facility(id, year, state, lat) ==
    [facility_id |-> id, year |-> year, state |-> state, facility_name |-> <<"Plant", id>>,
     latitude |-> lat, longitude |-> "-95.3"]

FacRows ==
    { Facility("1", 2022, "TX", "29.7"), Facility("1", 2023, "TX", "29.7"),
      Facility("2", 2022, "CA", Null), Facility("2", 2023, "CA", "34.0") }

DimRows == { [sector_id |-> 1, sector_name |-> "Power Plants"], [sector_id |-> 2, sector_name |-> "Waste"] }

SecUniverse ==
    { [facility_id |-> f, year |-> y, sector_name |-> s, sector_type |-> "E", gas_name |-> g,
       co2e_emission |-> IF s = "Waste" THEN 2500000 ELSE IF f = "2" THEN 1400000 ELSE 1500000] :
        f \in {"1", "2"}, y \in {2022, 2023}, s \in {"Power Plants", "Waste"},
        g \in {"Methane", "Biogenic CO2"} }

Db(sec) == (FAC :> FacRows) @@ (SEC :> sec) @@ (DIM :> DimRows) @@ (AGG :> {})

Datasets == { Db(sec) : sec \in { x \in SUBSET SecUniverse : Cardinality(x) <= MaxSecRows } }

InitQuery ==
    /\ ColdStart
    /\ event \in QueryEvents
    /\ data \in Datasets
    /\ query = NoQuery
    /\ response = NoResponse

NextQuery ==
    \/ handle_sectors_total_emissions
    \/ handle_list_sectors
    \/ handle_sector_trend
    \/ handle_bar_sector
    \/ handle_pie_sectors_emissions
    \/ handle_map_overlay
    \/ handle_export
    \/ handle_facility_hover
    \/ H_handle_sectors_total_emissions

SpecQuery == InitQuery /\ [][NextQuery]_vars

----------------------------------------------------------------------------
(* The emissions queries: claims *)

StateOps == {"sectors_total", "sector_trend", "bar_sector", "pie_sectors"}

FacilityJoins(q) == { i \in DOMAIN q.joins : q.joins[i].table = FAC }

StatePredicates(q) ==
    { i \in DOMAIN q.where : q.where[i].l[2] = "state" }
    \cup { i \in DOMAIN q.joins : \E k \in DOMAIN q.joins[i].on : q.joins[i].on[k].l[2] = "state" }

\* The join is on facility id and year, each an equality between the two tables' columns.
OnFacilityAndYear(j) ==
    /\ \A k \in DOMAIN j.on : ~j.on[k].lit /\ j.on[k].cmp = "="
    /\ { <<j.on[k].l[2], j.on[k].r[2]>> : k \in DOMAIN j.on }
         = { <<"facility_id", "facility_id">>, <<"year", "year">> }

\* C6: in sector totals, sector trend, bar and pie, the composed query has no join of
\* the facilities table and no predicate on the state when the state is "US"; when the
\* state is another non-empty value it has one join of the facilities table, on
\* facility id and year, and one predicate on the state, state = that value.
C6_StateFilterJoin ==
    (event.op \in StateOps /\ query # NoQuery) =>
        /\ State(event) = "US" =>
              FacilityJoins(query) = {} /\ StatePredicates(query) = {}
        /\ (State(event) # "US" /\ State(event) # "") =>
              /\ Cardinality(FacilityJoins(query)) = 1
              /\ \A i \in FacilityJoins(query) : OnFacilityAndYear(query.joins[i])
              /\ Cardinality(StatePredicates(query)) = 1
              /\ \E i \in DOMAIN query.where : query.where[i] = Lit("f", "state", "=", State(event))

\* C6 witness: a sector trend request for the state TX has been answered with the rows
\* of a query that joins the facilities table.
C6_TrendForOneState ==
    /\ event.op = "sector_trend"
    /\ State(event) = "TX"
    /\ response # NoResponse
    /\ FacilityJoins(query) # {}

\* The tables without the rows of the sector table whose gas is Biogenic CO2.
WithoutBiogenic(db) ==
    [t \in DOMAIN db |-> IF t = SEC THEN { r \in db[t] : r.gas_name # "Biogenic CO2" } ELSE db[t]]

\* C7: the rows whose gas name is Biogenic CO2 contribute to no returned total: the
\* response of every handler that sums emissions is one it could return for the same
\* request on the tables without those rows.
C7_BiogenicNeverContributes ==
    response # NoResponse =>
        response \in { x.response : x \in Outcomes(event, WithoutBiogenic(data)) }

\* C7 witness: the hover of a facility returns a quantity for the gas Biogenic CO2.
C7_HoverReturnsBiogenic ==
    /\ event.op = "facility_hover"
    /\ response.status = 200
    /\ \E i \in DOMAIN response.result.emissions :
          /\ response.result.emissions[i].type = "Biogenic CO2"
          /\ response.result.emissions[i].quantity > 0

----------------------------------------------------------------------------
(* Large datasets. The facilities of one year that are alike in every column but *)
(* the id are held as one block: f is their row of the facilities table, total   *)
(* what the join gives each of them (COALESCE(..., 0) applied), n their number.  *)

\* WHERE on the facility columns, then the selected columns as the key of the row.
BlockRows(q, cols, blocks) ==
    LET rows == { [key |-> KeyOf("f" :> b.f, cols), total |-> b.total, count |-> 0, max |-> NullNum, n |-> b.n]
                  : b \in { x \in blocks : AllHold(q.where, "f" :> x.f) } }
    IN  IF q.having THEN { r \in rows : r.total > 0 } ELSE rows

\* The row at offset k (from 0) of a result, as one row; NoRow beyond its ends.
NoRow == [n |-> 0]

RECURSIVE RowAt(_, _)
RowAt(s, k) ==
    IF k < 0 \/ s = <<>> THEN NoRow
    ELSE IF k < Head(s).n THEN [Head(s) EXCEPT !.n = 1]
    ELSE RowAt(Tail(s), k - Head(s).n)

\* JSON values of pageNumber: a number or a string
JNum(x) == [num |-> x]
JStr(x) == [str |-> x]

\* Python truth of a JSON number or string, and int() of it
JTruthy(v) == IF "num" \in DOMAIN v THEN v.num # 0 ELSE v.str # ""
JInt(v) == IF "num" \in DOMAIN v THEN [ok |-> TRUE, v |-> v.num] ELSE ParseInt(v.str)

page_size == 100

\* page = int(body.get('pageNumber', 1)) if body.get('pageNumber') else 1
PageOf(ev) ==
    IF "pageNumber" \in DOMAIN ev.body /\ JTruthy(ev.body.pageNumber)
    THEN JInt(ev.body.pageNumber)
    ELSE [ok |-> TRUE, v |-> 1]

\* handle_list_facilities: the query
ListFacilitiesQuery(year, offset) ==
    [from   |-> [table |-> FAC, alias |-> "f"],
     joins  |-> <<[kind |-> "LEFT", table |-> AGG, alias |-> "a",
                   on |-> <<ColEq("f", "facility_id", "a", "pgm_sys_id"), ColEq("f", "year", "a", "year")>>]>>,
     where  |-> <<Lit("f", "year", "=", year)>>,
     group  |-> <<>>,
     sum    |-> NoRef, coalesce |-> TRUE,
     count  |-> NoRef,
     max    |-> NoRef,
     having |-> FALSE,
     order  |-> ByTotalDesc, limit |-> <<page_size>>, offset |-> <<offset>>]

ListFacilitiesCols == <<Col("f", "facility_id"), Col("f", "facility_name"), Col("f", "state")>>

\* The rows of the data table of the response
FacilityRows(rows) ==
    [i \in DOMAIN rows |->
        [facility |-> rows[i].key, totalReportedEmissions |-> MMT(rows[i].total), n |-> rows[i].n]]

\* handle_list_facilities: int() of a string that is no numeral raises, and the engine
\* rejects a negative OFFSET; the except clause answers 500 for both.
ListFacilities(ev, blocks) ==
    LET p      == PageOf(ev)
        offset == (p.v - 1) * page_size
        q      == ListFacilitiesQuery(Year(ev), offset)
    IN  IF ~p.ok THEN { Outcome(NoQuery, Err(500, "invalid literal for int()")) }
        ELSE IF offset < 0 THEN { Outcome(q, Err(500, "OFFSET cannot be negative")) }
        ELSE { Outcome(q, Ok([rows |-> FacilityRows(rows)]))
               : rows \in Arrange(q, BlockRows(q, ListFacilitiesCols, blocks)) }

handle_list_facilities ==
    /\ event.op = "list_facilities"
    /\ Answer(ListFacilities(event, data))

\* handle_export on blocks
ExportBlocks(ev, blocks) ==
    LET all_years == Lower(Get(ev.params, "allReportingYears", "false")) = "true"
        q == ExportQuery(Year(ev), State(ev), Get(ev.body, "dataSource", "E"), all_years)
    IN  { Outcome(q, [status |-> 200,
                      csv    |-> [i \in DOMAIN rows |->
                                     [cols |-> rows[i].key, total |-> Tons(rows[i].total), n |-> rows[i].n]]])
          : rows \in Arrange(q, BlockRows(q, q.group, blocks)) }

handle_export_blocks ==
    /\ event.op = "export"
    /\ Answer(ExportBlocks(event, data))

----------------------------------------------------------------------------
(* SpecPage and SpecExport: requests and datasets *)

MaxBlocks == 2
MaxPage == 4

Block(id, year, total, n) ==
    [f |-> Facility(id, year, IF id = "A" THEN "TX" ELSE "CA", "29.7"), total |-> total, n |-> n]

UpTo(S, k) == { x \in SUBSET S : Cardinality(x) <= k }

PageNumbers ==
    {NoParams} \cup { [pageNumber |-> JNum(x)] : x \in -1..MaxPage }
               \cup { [pageNumber |-> JStr(x)] : x \in {"", "0", "2", "abc"} }

PageEvents == { Request_("list_facilities", y @@ p, NoParams, NoParams) : y \in YearParts, p \in PageNumbers }

PageBlocks ==
    { Block(id, y, t[1], t[2]) :
        id \in {"A", "B"}, y \in {2022, 2023}, t \in {<<0, 60>>, <<1500000, 150>>, <<2500000, 1>>} }

InitPage ==
    /\ ColdStart
    /\ event \in PageEvents
    /\ data \in UpTo(PageBlocks, MaxBlocks)
    /\ query = NoQuery
    /\ response = NoResponse

NextPage == handle_list_facilities

SpecPage == InitPage /\ [][NextPage]_vars

ExportEvents ==
    { Request_("export", y @@ s, a, NoParams) :
        y \in YearParts, s \in StateParts,
        a \in {NoParams, [allReportingYears |-> "true"], [allReportingYears |-> "True"]} }

ExportBlockUniverse ==
    { Block(id, y, t[1], t[2]) :
        id \in {"A", "B"}, y \in {2022, 2023},
        t \in {<<0, 13000>>, <<1500000, 13000>>, <<2500000, 1>>, <<2500000, 13000>>} }

InitExport ==
    /\ ColdStart
    /\ event \in ExportEvents
    /\ data \in UpTo(ExportBlockUniverse, MaxBlocks)
    /\ query = NoQuery
    /\ response = NoResponse

NextExport == handle_export_blocks

SpecExport == InitExport /\ [][NextExport]_vars

----------------------------------------------------------------------------
(* Pagination and the export limit: claims *)

\* C8: list facilities with pageNumber = p answers 200 with the rows at offsets
\* (p-1)*100 .. (p-1)*100+99 of the facilities of the year ordered by emissions
\* descending, as many of them as exist: none, and still 200, when p is outside the
\* pages the set has.
C8_PageOfHundred ==
    (response # NoResponse /\ "pageNumber" \in DOMAIN event.body /\ "num" \in DOMAIN event.body.pageNumber) =>
        LET p   == event.body.pageNumber.num
            all == BlockRows([where |-> <<Lit("f", "year", "=", Year(event))>>, having |-> FALSE],
                             ListFacilitiesCols, data)
        IN  /\ response.status = 200
            /\ \E s \in Orderings(all, ByTotalDesc) :
                  \A k \in 0..99 :
                      RowAt(response.result.rows, k) = RowAt(FacilityRows(s), (p - 1) * 100 + k)

\* C8 witness: pageNumber = 2 has been answered with the hundred rows at offsets 100..199.
C8_SecondPage ==
    /\ response # NoResponse
    /\ event.body = [pageNumber |-> JNum(2)]
    /\ response.status = 200
    /\ Rows(response.result.rows) = 100

\* C9: an export with allReportingYears=true returns at most 25,000 data rows, in the
\* order of year descending and, within a year, emissions descending.
C9_ExportCapAndOrder ==
    (response # NoResponse /\ event.op = "export"
        /\ Lower(Get(event.params, "allReportingYears", "false")) = "true") =>
        /\ response.status = 200
        /\ Rows(response.csv) <= 25000
        /\ \A i, j \in DOMAIN response.csv :
              i < j => \/ response.csv[i].cols[1] > response.csv[j].cols[1]
                       \/ /\ response.csv[i].cols[1] = response.csv[j].cols[1]
                          /\ response.csv[i].total >= response.csv[j].total

\* C9 witness: the facilities with emissions number more than 25,000, over two years,
\* and the all-years export has returned 25,000 rows, of both years.
C9_ExportTruncated ==
    /\ response # NoResponse
    /\ Lower(Get(event.params, "allReportingYears", "false")) = "true"
    /\ Rows(response.csv) = 25000
    /\ Cardinality({ b \in data : b.total > 0 /\ b.n > 1 }) >= 2
    /\ \E i, j \in DOMAIN response.csv : response.csv[i].cols[1] # response.csv[j].cols[1]

----------------------------------------------------------------------------
(* Route dispatch. A path is the sequence of its segments, each one following a  *)
(* "/": <<>> is "", <<"">> is "/", <<"api", "version", "">> is "/api/version/".  *)
(* A path that has lost its leading "/" (handler.py cuts five characters off a   *)
(* path that starts with "/ghgp") is held with rooted = FALSE.                   *)

\* The pairs <<s, p>> of segments the requests carry where p is a proper prefix of s.
ProperPrefixes == { <<"exports", "export">>, <<"emissions2", "emissions">>, <<"ghgpx", "ghgp">> }

\* str.startswith on one segment
StartsWith(seg, pre) == seg = pre \/ <<seg, pre>> \in ProperPrefixes

\* pat + "/" in path: the segments of pat, in a row, and one more segment after them
InPathSlash(pat, path) ==
    \E i \in 1..Len(path) :
        /\ i + Len(pat) <= Len(path)
        /\ SubSeq(path, i, i + Len(pat) - 1) = pat

\* pat in path: the last segment of pat need only begin a segment of the path
InPath(pat, path) ==
    \E i \in 1..Len(path) :
        /\ i + Len(pat) - 1 <= Len(path)
        /\ SubSeq(path, i, i + Len(pat) - 2) = SubSeq(pat, 1, Len(pat) - 1)
        /\ StartsWith(path[i + Len(pat) - 1], pat[Len(pat)])

\* path.startswith(pat)
PathStartsWith(pat, path) ==
    /\ Len(pat) <= Len(path)
    /\ SubSeq(path, 1, Len(pat) - 1) = SubSeq(pat, 1, Len(pat) - 1)
    /\ StartsWith(path[Len(pat)], pat[Len(pat)])

\* path.split('/')[-1]
LastPart(path) == IF path = <<>> THEN "" ELSE path[Len(path)]

\* path.rstrip('/')
RECURSIVE RStrip(_)
RStrip(path) ==
    IF path # <<>> /\ path[Len(path)] = "" THEN RStrip(SubSeq(path, 1, Len(path) - 1)) ELSE path

Ghgp(path) == <<"ghgp">> \o path

Route(method, path, handler) == [method |-> method, path |-> path, handler |-> handler]

\* ROUTES of lambda_function.py: every route with and without the /ghgp prefix
ROUTES ==
    UNION { { Route(r.method, r.path, r.handler), Route(r.method, Ghgp(r.path), r.handler) } :
        r \in { Route("GET", <<"api", "version">>, "handle_version"),
                Route("POST", <<"api", "facilities", "map-markers">>, "handle_facilities_map_markers"),
                Route("POST", <<"api", "sectors", "total", "emissions">>, "handle_sectors_total_emissions"),
                Route("POST", <<"api", "list", "sectors">>, "handle_list_sectors"),
                Route("POST", <<"api", "list", "facilities">>, "handle_list_facilities"),
                Route("POST", <<"api", "bar", "sector">>, "handle_bar_sector"),
                Route("POST", <<"api", "pie", "sectors", "emissions">>, "handle_pie_sectors_emissions"),
                Route("POST", <<"api", "map", "overlay">>, "handle_map_overlay") } }

\* ROUTES of handler.py
H_ROUTES ==
    { Route("GET", <<"api", "version">>, "handle_version"),
      Route("POST", <<"api", "facilities", "map-markers">>, "handle_facilities_map_markers"),
      Route("POST", <<"api", "sectors", "total", "emissions">>, "handle_sectors_total_emissions"),
      Route("POST", <<"api", "list", "sectors">>, "handle_list_sectors"),
      Route("POST", <<"api", "list", "facilities">>, "handle_list_facilities") }

\* ROUTES.get((method, path))
Lookup(routes, method, path) == { r \in routes : r.method = method /\ r.path = path }

\* The tests lambda_function.lambda_handler makes on the path after the table, in its order.
Templates ==
    << [test |-> "in/",        pat |-> <<"api", "state", "bounds">>,   handler |-> "handle_state_bounds"],
       [test |-> "in/",        pat |-> <<"api", "state", "counties">>, handler |-> "handle_state_counties"],
       [test |-> "equals",     pat |-> <<"api", "basin", "geo">>,      handler |-> "handle_basin_geo"],
       [test |-> "in/",        pat |-> <<"api", "facility", "hover">>, handler |-> "handle_facility_hover"],
       [test |-> "in/",        pat |-> <<"api", "sector", "trend">>,   handler |-> "handle_sector_trend"],
       [test |-> "equals",     pat |-> <<"api", "bar", "sector", "level2">>, handler |-> "handle_bar_sector"],
       [test |-> "in",         pat |-> <<"api", "pie", "level2", "sector", "emissions">>,
                               handler |-> "handle_pie_sectors_emissions"],
       [test |-> "in",         pat |-> <<"api", "pie", "level3", "subsector", "emissions">>,
                               handler |-> "handle_pie_sectors_emissions"],
       [test |-> "startswith", pat |-> <<"api", "export">>,            handler |-> "handle_export"],
       [test |-> "equals",     pat |-> <<"api", "data", "files">>,     handler |-> "handle_data_files"],
       [test |-> "in/",        pat |-> <<"api", "data", "download">>,  handler |-> "handle_data_download"] >>

\* A chain that tests the pattern only, never the pattern behind /ghgp.
Passes_Unprefixed(t, path) ==
    CASE t.test = "in/"        -> InPathSlash(t.pat, path)
      [] t.test = "in"         -> InPath(t.pat, path)
      [] t.test = "equals"     -> path = t.pat
      [] t.test = "startswith" -> PathStartsWith(t.pat, path)

\* One test of the chain: on the pattern or on the pattern behind /ghgp
Passes(t, path) ==
    CASE t.test = "in/"        -> InPathSlash(t.pat, path) \/ InPathSlash(Ghgp(t.pat), path)
      [] t.test = "in"         -> InPath(t.pat, path) \/ InPath(Ghgp(t.pat), path)
      [] t.test = "equals"     -> path = t.pat \/ path = Ghgp(t.pat)
      [] t.test = "startswith" -> PathStartsWith(t.pat, path) \/ PathStartsWith(Ghgp(t.pat), path)

\* The arguments the handler of test k is called with
ArgsOf(k, path) ==
    CASE Templates[k].handler \in {"handle_state_bounds", "handle_state_counties", "handle_facility_hover",
                                   "handle_data_download"} -> <<LastPart(path)>>
      [] Templates[k].handler = "handle_sector_trend" ->
            LET parts == <<"">> \o RStrip(path)
            IN  << IF Len(parts) > 2 THEN parts[Len(parts) - 1] ELSE "0",
                   IF Len(parts) > 1 THEN parts[Len(parts)] ELSE "1" >>
      [] k = 6 -> <<"2">>
      [] k = 7 -> <<"2">>
      [] k = 8 -> <<"3", "subsector">>
      [] OTHER -> <<>>

\* What lambda_handler does with the event: it returns a response of its own, or
\* what the handler it calls returns.
Return(module, resp) == [module |-> module, handler |-> "cors_response", args |-> <<>>, response |-> resp]
Call(module, handler, args) == [module |-> module, handler |-> handler, args |-> args, response |-> NoResponse]

Preflight == [status |-> 204, body |-> ""]

\* A fall-through that answers as the except clauses do.
NotFound_AsError(method, path) == Err(500, <<"Route not found: ", method, " ", path>>)

\* cors_response(404, {'messages': [{'text': f'Route not found: {method} {path}', 'type': 404}]})
NotFound(method, path) == Err(404, <<"Route not found: ", method, " ", path>>)

\* lambda_function.py: the method and the path, of a Function URL event or an API Gateway one
MethodOf(ev) ==
    IF "http" \in DOMAIN Get(ev, "requestContext", <<>>)
    THEN Get(ev.requestContext.http, "method", "GET")
    ELSE Get(ev, "httpMethod", "GET")

PathOf(ev) ==
    IF "http" \in DOMAIN Get(ev, "requestContext", <<>>)
    THEN Get(ev.requestContext.http, "path", <<"">>)
    ELSE Get(ev, "path", <<"">>)

\* lambda_function.lambda_handler
Dispatch(ev) ==
    LET method == MethodOf(ev)
        path   == PathOf(ev)
        exact  == Lookup(ROUTES, method, path)
        hits   == { k \in DOMAIN Templates : Passes(Templates[k], path) }
        first  == CHOOSE k \in hits : \A j \in hits : k <= j
    IN  IF method = "OPTIONS" THEN Return("lambda_function", Preflight)
        ELSE IF exact # {} THEN Call("lambda_function", (CHOOSE r \in exact : TRUE).handler, <<>>)
        ELSE IF hits # {} THEN Call("lambda_function", Templates[first].handler, ArgsOf(first, path))
        ELSE Return("lambda_function", NotFound(method, path))

\* handler.py: if path.startswith('/ghgp'): path = path[5:]
Rooted(path) == [rooted |-> TRUE, segs |-> path]

H_Normalize(path) ==
    IF path # <<>> /\ StartsWith(path[1], "ghgp")
    THEN IF path[1] = "ghgp" THEN Rooted(Tail(path))
         ELSE [rooted |-> FALSE, segs |-> <<"x">> \o Tail(path)]
    ELSE Rooted(path)

\* handler.lambda_handler
H_Dispatch(ev) ==
    LET method == Get(ev, "httpMethod", "GET")
        p      == H_Normalize(Get(ev, "path", <<>>))
        exact  == IF p.rooted THEN Lookup(H_ROUTES, method, p.segs) ELSE {}
    IN  IF Get(ev, "httpMethod", Null) = "OPTIONS" THEN Return("handler", Preflight)
        ELSE IF exact # {} THEN Call("handler", (CHOOSE r \in exact : TRUE).handler, <<>>)
        ELSE IF p.rooted /\ Len(p.segs) >= 4 /\ SubSeq(p.segs, 1, 3) = <<"api", "state", "bounds">>
             THEN Call("handler", "handle_state_bounds", <<LastPart(p.segs)>>)
        ELSE Return("handler", NotFound(method, p))

lambda_handler ==
    /\ response = NoResponse
    /\ response' = Dispatch(event)
    /\ UNCHANGED <<file_cache, tmp, s3, pc, op, idx, paths, dl, out, observed, attempts, fetches, served,
                   event, data, query, bodies, calls, abandoned, conn, geo_cache>>

H_lambda_handler ==
    /\ response = NoResponse
    /\ response' = H_Dispatch(event)
    /\ UNCHANGED <<file_cache, tmp, s3, pc, op, idx, paths, dl, out, observed, attempts, fetches, served,
                   event, data, query, bodies, calls, abandoned, conn, geo_cache>>

----------------------------------------------------------------------------
(* SpecRoute: events *)

MaxExtra == 2

Verbs == {"GET", "POST", "OPTIONS", "DELETE"}

PathHeads == { <<>>, <<"ghgp">>, <<"ghgpx">>, <<"v1">> }

PathBodies ==
    { r.path : r \in H_ROUTES } \cup { r.path : r \in ROUTES } \cup { Templates[k].pat : k \in DOMAIN Templates }
    \cup { <<>>, <<"api", "exports">>, <<"api", "pie", "level2", "sector", "emissions2">>, <<"api", "nothing">> }

PathTails == UNION { [1..k -> {"", "TX", "2"}] : k \in 0..MaxExtra }

Paths == { h \o b \o t : h \in PathHeads, b \in PathBodies, t \in PathTails }

RouteEvents ==
    { [httpMethod |-> m, path |-> p] : m \in Verbs, p \in Paths }
    \cup { [requestContext |-> [http |-> [method |-> m, path |-> p]]] : m \in Verbs, p \in Paths }
    \cup { [path |-> p] : p \in Paths }

InitRoute ==
    /\ ColdStart
    /\ event \in RouteEvents
    /\ data = <<>>
    /\ query = NoQuery
    /\ response = NoResponse

NextRoute ==
    \/ lambda_handler
    \/ H_lambda_handler

SpecRoute == InitRoute /\ [][NextRoute]_vars

----------------------------------------------------------------------------
(* Route dispatch: claims *)

\* The (verb, path) of the event matches a route of the module that answered: a pair
\* of its table, or one of its tests on the path.
MatchesRoute ==
    IF response.module = "lambda_function"
    THEN \/ Lookup(ROUTES, MethodOf(event), PathOf(event)) # {}
         \/ \E k \in DOMAIN Templates : Passes(Templates[k], PathOf(event))
    ELSE LET p == H_Normalize(Get(event, "path", <<>>))
         IN  /\ p.rooted
             /\ \/ Lookup(H_ROUTES, Get(event, "httpMethod", "GET"), p.segs) # {}
                \/ (Len(p.segs) >= 4 /\ SubSeq(p.segs, 1, 3) = <<"api", "state", "bounds">>)

VerbOf == IF response.module = "lambda_function" THEN MethodOf(event) ELSE Get(event, "httpMethod", "GET")

\* The 404 of the dispatch in the envelope: no result, one message, of type 404.
IsRouteNotFound(r) ==
    /\ r.handler = "cors_response"
    /\ r.response.status = 404
    /\ DOMAIN r.response = {"status", "messages"}
    /\ Len(r.response.messages) = 1
    /\ r.response.messages[1].type = 404
    /\ r.response.messages[1].text[1] = "Route not found: "

\* C10, as stated: every (verb, path) that matches no route is answered by the dispatch,
\* of either module, with the 404 RouteNotFound envelope.
C10_UnmatchedIsNotFound ==
    (response # NoResponse /\ ~MatchesRoute) => IsRouteNotFound(response)

\* C10, amended: every (verb, path) whose verb is not OPTIONS and that matches no
\* route is answered by the dispatch, of either module, with the 404 RouteNotFound
\* envelope; the verb OPTIONS is answered 204 whatever the path is.
C10_UnmatchedIsNotFoundButOptions ==
    response # NoResponse =>
        /\ (VerbOf # "OPTIONS" /\ ~MatchesRoute) => IsRouteNotFound(response)
        /\ VerbOf = "OPTIONS" => (response.handler = "cors_response" /\ response.response = Preflight)

\* C10 witness: handler.py has answered 404 to a GET of a path that has no route there
\* (it is a route of lambda_function.py only).
C10_NoRouteInHandlerPy ==
    /\ response # NoResponse
    /\ response.module = "handler"
    /\ Get(event, "httpMethod", "GET") = "GET"
    /\ Get(event, "path", <<>>) = <<"ghgp", "api", "basin", "geo">>
    /\ IsRouteNotFound(response)

----------------------------------------------------------------------------
(* Route dispatch: the mount prefix *)

\* The event with another path, where the event carries its path.
WithPath(ev, path) ==
    IF "http" \in DOMAIN Get(ev, "requestContext", <<>>)
    THEN [ev EXCEPT !.requestContext.http.path = path]
    ELSE [ev EXCEPT !.path = path]

\* What a dispatch selected: the handler, its path parameters, and the status of the
\* response when the dispatch answered by itself.
Operation(r) == [handler |-> r.handler, args |-> r.args, status |-> r.response.status]

\* The path begins with "/api/".
BeginsWithApi(path) == Len(path) >= 2 /\ path[1] = "api"

\* C11: for every verb and every path p that begins with /api/, the dispatch of
\* (verb, "/ghgp" + p) selects the operation, with the path parameters, that the
\* dispatch of (verb, p) selects; in lambda_function.py and in handler.py.
C11_SameWithMountPrefix ==
    response # NoResponse =>
        IF response.module = "lambda_function"
        THEN BeginsWithApi(PathOf(event)) =>
                Operation(Dispatch(WithPath(event, Ghgp(PathOf(event))))) = Operation(response)
        ELSE BeginsWithApi(Get(event, "path", <<>>)) =>
                Operation(H_Dispatch(WithPath(event, Ghgp(event.path)))) = Operation(response)

\* C11 witness: POST /api/sector/trend/2/TX has been dispatched to the sector trend
\* with the parameters 2 and TX, as POST /ghgp/api/sector/trend/2/TX is.
C11_TrendBehindPrefix ==
    /\ response # NoResponse
    /\ response.module = "lambda_function"
    /\ MethodOf(event) = "POST"
    /\ PathOf(event) = <<"api", "sector", "trend", "2", "TX">>
    /\ Operation(response) = [handler |-> "handle_sector_trend", args |-> <<"2", "TX">>, status |-> 0]
    /\ Dispatch(WithPath(event, Ghgp(PathOf(event)))).handler = "handle_sector_trend"

----------------------------------------------------------------------------
(* Route dispatch: exact routes first, templates by prefix *)

\* The path without the mount prefix, when it has it.
Unmounted(path) == IF path # <<>> /\ path[1] = "ghgp" THEN Tail(path) ELSE path

\* The path begins with the text the test of the template looks for.
BeginsWithTemplate(t, path) ==
    CASE t.test = "in/"        -> Len(path) > Len(t.pat) /\ SubSeq(path, 1, Len(t.pat)) = t.pat
      [] t.test = "in"         -> PathStartsWith(t.pat, path)
      [] t.test = "equals"     -> path = t.pat
      [] t.test = "startswith" -> PathStartsWith(t.pat, path)

\* C12: the dispatch of lambda_function.py calls the handler of the exact (verb, path)
\* pair when the table has the pair, and otherwise calls a handler of the templated
\* routes only when the path, without the optional mount prefix, begins with the
\* template of that handler: a path that has the template text after other leading
\* segments is not routed to it.
C12_TemplatesMatchByPrefix ==
    (response # NoResponse /\ response.module = "lambda_function" /\ MethodOf(event) # "OPTIONS") =>
        LET exact == Lookup(ROUTES, MethodOf(event), PathOf(event))
        IN  /\ exact # {} => response.handler \in { r.handler : r \in exact }
            /\ (exact = {} /\ response.handler # "cors_response") =>
                  \E k \in DOMAIN Templates :
                      /\ Templates[k].handler = response.handler
                      /\ BeginsWithTemplate(Templates[k], Unmounted(PathOf(event)))

\* C12 witness: GET /v1/api/state/bounds/TX, which has the template text after the
\* leading segment v1, has been routed to the state bounds with the parameter TX.
C12_BoundsAfterOtherSegment ==
    /\ response # NoResponse
    /\ response.module = "lambda_function"
    /\ MethodOf(event) = "GET"
    /\ PathOf(event) = <<"v1", "api", "state", "bounds", "TX">>
    /\ response.handler = "handle_state_bounds"
    /\ response.args = <<"TX">>

----------------------------------------------------------------------------
(* The data files. A filename, like a path, is held as the sequence of its parts  *)
(* between "/": <<"..", "secret.csv">> is "../secret.csv". data is the set of the *)
(* keys the bucket holds.                                                         *)

\* The parts the filenames of the requests are made of.
FileParts == {"", "..", "secret.csv", "..x.csv", "x.csv", "notes.txt"}

\* part.endswith('.csv')
EndsWithCsv(part) == part \in {"secret.csv", "..x.csv", "x.csv"}

\* '..' in part
HasDotDot(part) == part \in {"..", "..x.csv"}

\* not filename.endswith('.csv') or '/' in filename or '..' in filename
InvalidFilename(filename) ==
    \/ ~EndsWithCsv(filename[Len(filename)])
    \/ Len(filename) > 1
    \/ \E i \in DOMAIN filename : HasDotDot(filename[i])

\* s3_key = f'epa_ghg_tables_csvs/{filename}'
CsvKey(filename) == <<"epa_ghg_tables_csvs">> \o filename

RemoteCall(name, key) == [call |-> name, key |-> key]

\* handle_data_download: the calls made on the bucket and the response, for each way
\* the calls may end. head_object raises when the bucket has no such key, and may
\* raise when it has; generate_presigned_url may raise.
DataDownload(filename, keys) ==
    LET s3_key  == CsvKey(filename)
        head    == RemoteCall("head_object", s3_key)
        presign == RemoteCall("generate_presigned_url", s3_key)
    IN  IF InvalidFilename(filename)
        THEN { [calls |-> <<>>, response |-> Err(400, "Invalid filename")] }
        ELSE { [calls |-> <<head>>, response |-> Err(404, "File not found")] }
             \cup IF s3_key \in keys
                  THEN { [calls |-> <<head, presign>>,
                          response |-> Ok([url |-> <<"presigned", s3_key>>, filename |-> filename])],
                         [calls |-> <<head, presign>>, response |-> Err(500, "e")] }
                  ELSE {}

\* lambda_handler finds the download route and calls handle_data_download with the
\* last segment of the path.
handle_data_download ==
    /\ response = NoResponse
    /\ Dispatch(event).handler = "handle_data_download"
    /\ \E x \in DataDownload(<<Dispatch(event).args[1]>>, data) :
          /\ calls' = x.calls
          /\ response' = x.response
    /\ UNCHANGED <<file_cache, tmp, s3, pc, op, idx, paths, dl, out, observed, attempts, fetches, served,
                   event, data, query, bodies, abandoned, conn, geo_cache>>

----------------------------------------------------------------------------
(* SpecFiles: download requests and buckets *)

MaxParts == 2

Filenames == UNION { [1..k -> FileParts] : k \in 1..MaxParts }

DownloadRoute == <<"api", "data", "download">>

FileEvents ==
    { [httpMethod |-> m, path |-> h \o DownloadRoute \o f] :
        m \in {"GET", "POST"}, h \in {<<>>, <<"ghgp">>}, f \in Filenames }

Buckets == SUBSET { CsvKey(<<"secret.csv">>), CsvKey(<<"x.csv">>) }

InitFiles ==
    /\ ColdStart
    /\ event \in FileEvents
    /\ data \in Buckets
    /\ query = NoQuery
    /\ response = NoResponse

NextFiles == handle_data_download

SpecFiles == InitFiles /\ [][NextFiles]_vars

----------------------------------------------------------------------------
(* The data files: claims *)

\* The filename the request asks for: what follows "/api/data/download/" in its path.
RequestedFilename(ev) ==
    LET path == Unmounted(PathOf(ev))
    IN  SubSeq(path, Len(DownloadRoute) + 1, Len(path))

\* C13: a download request whose filename has a path separator, or "..", or does not
\* end in ".csv" ("../secret.csv" for one) is answered 400 Invalid filename, and no
\* call is made on the bucket for it, when the request comes through lambda_handler.
C13_InvalidFilenameRejected ==
    (response # NoResponse /\ InvalidFilename(RequestedFilename(event))) =>
        /\ response = Err(400, "Invalid filename")
        /\ calls = <<>>

\* C13 witness: GET /api/data/download/../secret.csv has been answered with a
\* presigned URL of the object secret.csv, after head_object on its key.
C13_TraversalReachesBucket ==
    /\ PathOf(event) = DownloadRoute \o <<"..", "secret.csv">>
    /\ response.status = 200
    /\ Len(calls) = 2
    /\ calls[1] = RemoteCall("head_object", CsvKey(<<"secret.csv">>))

----------------------------------------------------------------------------
(* Facility hover: claims *)

\* C14: facility hover for a facility id that some row of the facility table has
\* answers 200 with the descriptor of that facility and the emissions by gas in
\* descending order of quantity; for an id that no row of the facility table has it
\* answers 404 Facility not found, with no result.
C14_HoverFoundOrNotFound ==
    (event.op = "facility_hover" /\ response # NoResponse /\ Truthy(Get(event.params, "id", Null))) =>
        LET id == event.params.id
        IN  IF \E r \in data[FAC] : r.facility_id = id
            THEN /\ response.status = 200
                 /\ response.result.facilityTipDto.facilityId = ParseInt(id).v
                 /\ \A i, j \in DOMAIN response.result.emissions :
                       i < j => response.result.emissions[i].quantity >= response.result.emissions[j].quantity
            ELSE response = Err(404, "Facility not found")

\* C14 witness: the hover of facility 1 in 2022 has answered with two gases, the larger
\* quantity first.
C14_TwoGasesLargerFirst ==
    /\ event.op = "facility_hover"
    /\ response.status = 200
    /\ event.params.id = "1"
    /\ event.args.year = 2022
    /\ Len(response.result.emissions) = 2
    /\ response.result.emissions[1].quantity > response.result.emissions[2].quantity

----------------------------------------------------------------------------
(* The state geometries. data holds what get_geo_json finds for each of the two  *)
(* files: whether the file can be had, and the state codes that are its keys.     *)

\* str.upper() on the state codes the requests carry
Upper(s) ==
    CASE s = "tx"    -> "TX"
      [] s = "us"    -> "US"
      [] s = "local" -> "LOCAL"
      [] OTHER       -> s

\* What a geo file is: loaded (with its keys) or not to be had.
GeoFile(ok, codes) == [ok |-> ok, codes |-> codes]

\* s3_key = f"epa_ghg_geo/{filename}"; raise Exception(f"Failed to download {s3_key}: {e}")
GeoFailed(filename) == <<"Failed to download ", <<"epa_ghg_geo/", filename>>, ": ", "e">>

\* handle_state_bounds
StateBounds(state_code, geo) ==
    LET code == Upper(state_code)
    IN  IF code \in {"US", "LOCAL"} THEN Ok(<<>>)
        ELSE IF ~geo.states.ok
             THEN Err(500, <<"Error loading state bounds: ", GeoFailed("state_geometries.json")>>)
        ELSE IF code \notin geo.states.codes THEN Err(404, <<"State not found: ", code>>)
        ELSE Ok([stateName |-> <<"name", code>>, stateCode |-> code,
                 bounds |-> <<"bounds", code>>, geometry |-> <<"geometry", code>>])

\* handle_state_counties
StateCounties(state_code, geo) ==
    LET code == Upper(state_code)
    IN  IF ~geo.counties.ok
        THEN Err(500, <<"Error loading counties: ", GeoFailed("counties_by_state.json")>>)
        ELSE IF code \notin geo.counties.codes THEN Ok(<<>>)
        ELSE Ok(<< <<"county", code>> >>)

\* handler.py, handle_state_bounds: cors_response(200, {'messages': []})
H_StateBounds(state_code) == [status |-> 200, messages |-> <<>>]

\* get_geo_json(filename): the data is taken from geo_cache when it is there; when the
\* file could be had, its data is recorded in geo_cache; when not, geo_cache is as it was.
GetGeoJson(gc, filename, file) ==
    IF filename \in DOMAIN gc \/ ~file.ok THEN gc
    ELSE [x \in (DOMAIN gc) \cup {filename} |-> IF x = filename THEN file.codes ELSE gc[x]]

\* The handler the dispatch called answers, geo_cache being gc by then.
Reply(resp, gc) ==
    /\ response = NoResponse
    /\ response' = resp
    /\ geo_cache' = gc
    /\ UNCHANGED <<file_cache, tmp, s3, pc, op, idx, paths, dl, out, observed, attempts, fetches, served,
                   event, data, query, bodies, calls, abandoned, conn>>

handle_state_bounds ==
    /\ Dispatch(event).handler = "handle_state_bounds"
    /\ Reply(StateBounds(Dispatch(event).args[1], data),
             IF Upper(Dispatch(event).args[1]) \in {"US", "LOCAL"} THEN geo_cache
             ELSE GetGeoJson(geo_cache, "state_geometries.json", data.states))

handle_state_counties ==
    /\ Dispatch(event).handler = "handle_state_counties"
    /\ Reply(StateCounties(Dispatch(event).args[1], data),
             GetGeoJson(geo_cache, "counties_by_state.json", data.counties))

H_handle_state_bounds ==
    /\ H_Dispatch(event).handler = "handle_state_bounds"
    /\ Reply(H_StateBounds(H_Dispatch(event).args[1]), geo_cache)

----------------------------------------------------------------------------
(* SpecGeo: state requests and geo files *)

StateCodes == {"TX", "tx", "CA", "US", "us", "LOCAL", "ZZ", ""}

GeoEvents ==
    { [httpMethod |-> m, path |-> h \o <<"api", "state", k, c>>] :
        m \in {"GET", "POST"}, h \in {<<>>, <<"ghgp">>}, k \in {"bounds", "counties"}, c \in StateCodes }

GeoFiles == { GeoFile(FALSE, {}) } \cup { GeoFile(TRUE, c) : c \in {{}, {"TX"}, {"TX", "CA"}} }

InitGeo ==
    /\ ColdStart
    /\ event \in GeoEvents
    /\ data \in [states : GeoFiles, counties : GeoFiles]
    /\ query = NoQuery
    /\ response = NoResponse

NextGeo ==
    \/ handle_state_bounds
    \/ handle_state_counties
    \/ H_handle_state_bounds

SpecGeo == InitGeo /\ [][NextGeo]_vars

----------------------------------------------------------------------------
(* SpecApi: one request of any kind, answered by the dispatch or by the handler   *)
(* the dispatch calls. The requests of SpecQuery and SpecPage are held as the     *)
(* operation the dispatch found with the body and parameters of the event; the    *)
(* others as the event lambda_handler is given.                                   *)

\* lambda_handler answers by itself: 204 to OPTIONS, 404 when no route matches.
lambda_handler_answers ==
    /\ Dispatch(event).handler = "cors_response"
    /\ Reply(Dispatch(event).response, geo_cache)

H_lambda_handler_answers ==
    /\ H_Dispatch(event).handler = "cors_response"
    /\ Reply(H_Dispatch(event).response, geo_cache)

\* The event is held as the operation the dispatch found.
IsRequest(ev) == "op" \in DOMAIN ev

NoRouteEvents ==
    { [httpMethod |-> m, path |-> h \o p] :
        m \in {"GET", "POST", "OPTIONS", "DELETE"}, h \in {<<>>, <<"ghgp">>},
        p \in { <<"">>, <<"api", "nothing">>, <<"api", "version", "2">> } }

InitApi ==
    \/ InitQuery
    \/ InitPage
    \/ InitFiles
    \/ InitGeo
    \/ /\ ColdStart
       /\ event \in NoRouteEvents
       /\ data = <<>>
       /\ query = NoQuery
       /\ response = NoResponse

NextApi ==
    \/ IsRequest(event) /\ handle_sectors_total_emissions
    \/ IsRequest(event) /\ handle_list_sectors
    \/ IsRequest(event) /\ handle_list_facilities
    \/ IsRequest(event) /\ handle_sector_trend
    \/ IsRequest(event) /\ handle_bar_sector
    \/ IsRequest(event) /\ handle_pie_sectors_emissions
    \/ IsRequest(event) /\ handle_map_overlay
    \/ IsRequest(event) /\ handle_export
    \/ IsRequest(event) /\ handle_facility_hover
    \/ IsRequest(event) /\ H_handle_sectors_total_emissions
    \/ ~IsRequest(event) /\ handle_data_download
    \/ ~IsRequest(event) /\ handle_state_bounds
    \/ ~IsRequest(event) /\ handle_state_counties
    \/ ~IsRequest(event) /\ H_handle_state_bounds
    \/ ~IsRequest(event) /\ lambda_handler_answers
    \/ ~IsRequest(event) /\ H_lambda_handler_answers

SpecApi == InitApi /\ [][NextApi]_vars

----------------------------------------------------------------------------
(* The error envelope: claims *)

\* The body is the envelope of an error: no result, one message, its type the status.
IsErrorEnvelope(r) ==
    /\ DOMAIN r = {"status", "messages"}
    /\ Len(r.messages) = 1
    /\ DOMAIN r.messages[1] = {"text", "type"}
    /\ r.messages[1].type = r.status

\* C15: every response of status 400, 404 or 500, of a handler or of the dispatch,
\* has the envelope as its body, with no result and with one message, whose type
\* is the status of the response.
C15_ErrorsInEnvelope ==
    response.status \in {400, 404, 500} => IsErrorEnvelope(response)

\* C15 witness: the listing of facilities has answered 500, in the envelope, to a request
\* whose page number the engine rejects.
C15_EngineErrorInEnvelope ==
    /\ IsRequest(event)
    /\ event.op = "list_facilities"
    /\ response.status = 500
    /\ query # NoQuery
    /\ IsErrorEnvelope(response)

----------------------------------------------------------------------------
(* The snapshot cache: a failed fetch fails the request *)

\* C16: when the fetch of a table a handler acquires fails, the request ends with a
\* 500 whose one message is the failure message of get_local_parquet and which has no
\* result; and a response that has a result was computed from the files of all the
\* tables of the handler, never from some of them.
C16_FailedFetchFailsRequest ==
    [][\A p \in Threads :
          /\ (pc[p] = "download" /\ pc'[p] # "download" /\ Len(paths'[p]) = Len(paths[p])) =>
                /\ pc'[p] = "done"
                /\ out'[p] = 500
                /\ bodies'[p] = Err(500, FailedToDownload(Tbl(p)))
          /\ "result" \in DOMAIN bodies'[p] =>
                bodies'[p].result.read_parquet =
                    [i \in DOMAIN TablesOf(op'[p]) |-> LocalPath(TablesOf(op'[p])[i])]]_vars

\* C16 witness: a request holds the paths of the tables it acquired first, the fetch of
\* a later table has failed, and its response is the 500 with no result.
C16_LaterTableFailed ==
    \E p \in Threads :
        /\ pc[p] = "done"
        /\ out[p] = 500
        /\ Len(paths[p]) >= 1
        /\ Len(paths[p]) < Len(TablesOf(op[p]))
        /\ bodies[p] = Err(500, FailedToDownload(TablesOf(op[p])[Len(paths[p]) + 1]))

----------------------------------------------------------------------------
(* SpecUnits: the conversion of the totals of a result to MMT, as the sector,     *)
(* list, trend, bar and pie handlers apply it to each row. data is the column of  *)
(* totals of the rows, in whole metric tons.                                      *)

MaxMMT == 3

\* Totals at, just under and just over every half million up to MaxMMT millions.
Totals == { t \in { k * (MMT_DIVISOR \div 2) + d : k \in 0..(2 * MaxMMT), d \in {-1, 0, 1} } : t >= 0 }

\* [round(float(row[1]) / MMT_DIVISOR) if row[1] else 0 for row in result]
toMMT ==
    /\ response = NoResponse
    /\ response' = Ok([data |-> [i \in DOMAIN data |-> MMT(data[i])]])
    /\ UNCHANGED <<file_cache, tmp, s3, pc, op, idx, paths, dl, out, observed, attempts, fetches, served,
                   event, data, query, bodies, calls, abandoned, conn, geo_cache>>

InitUnits ==
    /\ ColdStart
    /\ event = NoEvent
    /\ data \in [1..2 -> Totals]
    /\ query = NoQuery
    /\ response = NoResponse

NextUnits == toMMT

SpecUnits == InitUnits /\ [][NextUnits]_vars

\* C17: the conversion to MMT gives 0 for a total of 0, and for non-negative totals
\* a > b it gives a value for a that is not below the value for b.
C17_MMTZeroAndMonotonic ==
    response # NoResponse =>
        \A i, j \in DOMAIN data :
            /\ data[i] = 0 => response.result.data[i] = 0
            /\ data[i] > data[j] => response.result.data[i] >= response.result.data[j]

\* C17 witness: 2,500,000 and 1,500,000 tons have both been converted to 2 MMT (a tie
\* goes to the even integer).
C17_TiesToEven ==
    /\ data = <<2500000, 1500000>>
    /\ response # NoResponse
    /\ response.result.data = <<2, 2>>

----------------------------------------------------------------------------
(* The state geometries: claims *)

\* The geo file the handler of the request reads.
GeoFileOf(ev, geo) ==
    IF Dispatch(ev).handler = "handle_state_bounds" THEN geo.states ELSE geo.counties

\* The request names a state code that its geo file, which could be had, does not
\* have (US and LOCAL, which stand for the whole country, are not counted).
NamesUnknownState(ev, geo) ==
    LET code == Upper(Dispatch(ev).args[1])
    IN  /\ GeoFileOf(ev, geo).ok
        /\ code \notin GeoFileOf(ev, geo).codes
        /\ code \notin {"US", "LOCAL"}

\* C18: a request of the state bounds or of the state counties that names an unknown
\* state code is answered 404, in the envelope.
C18_UnknownStateIsNotFound ==
    (response # NoResponse /\ NamesUnknownState(event, data)) =>
        (response.status = 404 /\ IsErrorEnvelope(response))

\* C18 witness: GET /api/state/counties/ZZ, with a counties file that has no ZZ, has
\* been answered 200 with an empty result.
C18_CountiesOfUnknownState ==
    /\ MethodOf(event) = "GET"
    /\ PathOf(event) = <<"api", "state", "counties", "ZZ">>
    /\ data.counties = GeoFile(TRUE, {"TX", "CA"})
    /\ response = Ok(<<>>)

----------------------------------------------------------------------------
(* Route dispatch: the verb *)

\* The verb each handler is declared for (the first word of its docstring).
DeclaredVerb(handler) ==
    IF handler \in {"handle_version", "handle_state_bounds", "handle_state_counties", "handle_basin_geo",
                    "handle_data_files", "handle_data_download", "handle_facility_hover"}
    THEN "GET" ELSE "POST"

\* The handlers that have a route of the event's path in the module that answered,
\* whatever the verb of the route.
HandlersOfPath ==
    IF response.module = "lambda_function"
    THEN { r.handler : r \in { x \in ROUTES : x.path = PathOf(event) } }
         \cup { Templates[k].handler : k \in { j \in DOMAIN Templates : Passes(Templates[j], PathOf(event)) } }
    ELSE LET p == H_Normalize(Get(event, "path", <<>>))
         IN  IF ~p.rooted THEN {}
             ELSE { r.handler : r \in { x \in H_ROUTES : x.path = p.segs } }
                  \cup IF Len(p.segs) >= 4 /\ SubSeq(p.segs, 1, 3) = <<"api", "state", "bounds">>
                       THEN {"handle_state_bounds"} ELSE {}

\* C19: a request of the path of an operation, exact or templated, with a verb that
\* is not the verb declared for the operation (and is not OPTIONS) is not routed to
\* the operation: the dispatch answers it with RouteNotFound.
C19_WrongVerbIsNotFound ==
    (/\ response # NoResponse
     /\ VerbOf # "OPTIONS"
     /\ HandlersOfPath # {}
     /\ \A h \in HandlersOfPath : DeclaredVerb(h) # VerbOf) => IsRouteNotFound(response)

\* C19 witness: POST /api/state/bounds/TX has been routed to the state bounds, which is
\* declared for GET.
C19_PostOnStateBounds ==
    /\ response # NoResponse
    /\ response.module = "lambda_function"
    /\ MethodOf(event) = "POST"
    /\ PathOf(event) = <<"api", "state", "bounds", "TX">>
    /\ response.handler = "handle_state_bounds"
    /\ response.args = <<"TX">>

----------------------------------------------------------------------------
(* SpecStall: the snapshot cache when one thread may stall. Thread 2 is scheduled *)
(* and its download_file returns or raises; nothing is assumed of thread 1, whose *)
(* download may never end.                                                        *)

\* A step of the get_local_parquet call of thread p.
Acquire(p) == CheckCache(p) \/ CheckFile(p) \/ DownloadOk(p) \/ DownloadFail(p)

SpecStall == Init /\ [][Next]_vars /\ WF_vars(Acquire(2))

\* C20: a fetch of one table does not hold back an acquire of another table: while the
\* download of thread 1 for a table is in flight, and whether or not it ever ends, a
\* call of thread 2 for another table comes to its end (it returns a path or raises).
C20_OtherTableCompletes ==
    \A i \in 1..3 :
        (pc[2] \in InCall /\ idx[2] = i /\ pc[1] = "download" /\ Tbl(1) # Tbl(2))
            ~> (pc[2] \notin InCall \/ idx[2] # i)

\* C20 witness: the downloads of two different tables are in flight at the same time.
C20_TwoTablesInFlight ==
    /\ pc[1] = "download"
    /\ pc[2] = "download"
    /\ Tbl(1) # Tbl(2)
    /\ dl[1] # 0 /\ dl[2] # 0

----------------------------------------------------------------------------
(* SpecHang: the snapshot cache when the remote store may stall. Every thread is *)
(* scheduled for the statements of the program itself; s3_client is created with *)
(* region_name only and download_file is called with no timeout, so nothing is   *)
(* assumed about when, or whether, a download_file call returns or raises.       *)

\* A step of thread p that does not wait for the remote store.
Local(p) == CheckCache(p) \/ CheckFile(p) \/ Execute(p) \/ Respond(p)

SpecHang == Init /\ [][Next]_vars /\ \A p \in Threads : WF_vars(Local(p))

----------------------------------------------------------------------------
(* SpecAbandon: the snapshot cache when callers may go away. lambda_handler is   *)
(* called and runs to its return (local_server.py calls it and then writes the   *)
(* response); no statement of a handler or of get_local_parquet looks at the     *)
(* caller, so that a caller going away changes nothing the request does. Every   *)
(* thread is scheduled and its download_file returns or raises.                  *)

\* The caller of the request of thread p goes away while its fetch is in flight.
Abandon(p) ==
    /\ pc[p] = "download"
    /\ ~abandoned[p]
    /\ abandoned' = [abandoned EXCEPT ![p] = TRUE]
    /\ UNCHANGED <<file_cache, tmp, s3, pc, op, idx, paths, dl, out, observed, attempts, fetches,
                   served, event, data, query, response, bodies, calls, conn, geo_cache>>

\* The steps of the requests, the bucket keeping the objects it has.
NextAbandon ==
    \/ \E p \in Threads : Request(p)
    \/ \E p \in Threads : CheckCache(p)
    \/ \E p \in Threads : CheckFile(p)
    \/ \E p \in Threads : DownloadOk(p)
    \/ \E p \in Threads : DownloadFail(p)
    \/ \E p \in Threads : Execute(p)
    \/ \E p \in Threads : Respond(p)
    \/ \E p \in Threads : Abandon(p)

SpecAbandon == Init /\ [][NextAbandon]_vars /\ \A p \in Threads : WF_vars(Acquire(p))

\* Thread q's call for t finds the mapping in file_cache and returns it, with no
\* download_file call.
Hit(q, t) ==
    /\ paths'[q] = Append(paths[q], LocalPath(t))
    /\ attempts'[q] = attempts[q]
    /\ tmp' = tmp

\* C22: a fetch whose request was abandoned by its caller while the fetch was in
\* flight still comes to its end; when it succeeds the mapping of its table is in
\* file_cache, and every later call for a table that has a mapping is a hit.
C22_AbandonedFetchCompletes ==
    /\ \A p \in Threads : \A i \in 1..3 :
           (abandoned[p] /\ pc[p] = "download" /\ idx[p] = i)
               ~> (pc[p] # "download" \/ idx[p] # i)
    /\ [][\A p \in Threads :
              (abandoned[p] /\ pc[p] = "download" /\ Returns(p))
                  => /\ Tbl(p) \in DOMAIN file_cache'
                     /\ file_cache'[Tbl(p)] = LocalPath(Tbl(p))
                     /\ tmp'[Tbl(p)] # 0]_vars
    /\ [][\A q \in Threads :
              (pc[q] = "check_cache" /\ pc'[q] # "check_cache" /\ Tbl(q) \in DOMAIN file_cache)
                  => Hit(q, Tbl(q))]_vars

\* C22 witness: a thread takes from file_cache the mapping that the fetch of an
\* abandoned request recorded: the other thread's request is still marked abandoned,
\* has got past the table, and was the one that called download_file for it.
C22_HitAfterAbandonedFetch ==
    \E p \in Threads : \E q \in Threads \ {p} :
        /\ abandoned[p]
        /\ pc[p] \in {"execute", "done"}
        /\ attempts[p] # <<>>
        /\ attempts[q] = <<>>
        /\ \E t \in SeqRange(attempts[p]) :
              /\ t \in DOMAIN file_cache
              /\ paths[q] # <<>> /\ paths[q][1] = LocalPath(t)

----------------------------------------------------------------------------
(* The snapshot cache: no retry within a request *)

\* The sequence names no table twice.
NoRepeat(s) == \A i, j \in DOMAIN s : i # j => s[i] # s[j]

\* C23: within one request download_file is called at most once for each table: a
\* request whose fetch failed has ended (it holds its 500 and is in no call), and a
\* request calls download_file only for a table it has not called it for before, so
\* that a table is fetched again only by another, later request.
C23_OneAttemptPerRequest ==
    /\ [](\A p \in Threads : NoRepeat(attempts[p]))
    /\ [][\A p \in Threads :
              /\ (pc[p] = "download" /\ pc'[p] # "download" /\ ~Returns(p)) =>
                    /\ pc'[p] = "done"
                    /\ out'[p] = 500
                    /\ attempts'[p] = attempts[p]
              /\ (attempts'[p] # attempts[p] /\ attempts'[p] # <<>>) =>
                    \E t \in Tables \ SeqRange(attempts[p]) :
                        attempts'[p] = Append(attempts[p], t)]_vars

\* C23 witness: the fetch of a table failed for one request, which holds its 500 and
\* made that one attempt for the table, and another request has since fetched the
\* table itself and got past it.
C23_RetriedByLaterRequest ==
    \E p \in Threads : \E q \in Threads \ {p} :
        /\ pc[q] = "done" /\ out[q] = 500
        /\ attempts[q] # <<>>
        /\ LET t == attempts[q][Len(attempts[q])]
           IN  /\ t \in SeqRange(attempts[p])
               /\ t \in DOMAIN file_cache
               /\ LocalPath(t) \in SeqRange(paths[p])
               /\ LocalPath(t) \notin SeqRange(paths[q])

----------------------------------------------------------------------------
(* SpecTables: the tables a request acquires. The request is the event; each     *)
(* thread that takes it runs its handler from the first statement: the reading   *)
(* of the body and parameters, then the handler's get_local_parquet calls, one   *)
(* after the other, then the query.                                              *)

\* A handler is entered with the event. handle_facility_hover returns 400 when the
\* id parameter is missing, before its first get_local_parquet call; every other
\* handler reads its body and goes to its get_local_parquet calls, whatever the body.
Enter(p) ==
    /\ pc[p] = "idle"
    /\ served < MaxRequests
    /\ event.op \in CacheOps
    /\ served' = served + 1
    /\ op' = [op EXCEPT ![p] = event.op]
    /\ IF event.op = "facility_hover" /\ ~Truthy(Get(event.params, "id", Null))
       THEN /\ pc' = [pc EXCEPT ![p] = "done"]
            /\ out' = [out EXCEPT ![p] = 400]
            /\ bodies' = [bodies EXCEPT ![p] = Err(400, "Missing facility id")]
            /\ idx' = idx
       ELSE /\ pc' = [pc EXCEPT ![p] = "check_cache"]
            /\ idx' = [idx EXCEPT ![p] = 1]
            /\ UNCHANGED <<out, bodies>>
    /\ UNCHANGED <<file_cache, tmp, s3, paths, dl, observed, attempts, fetches,
                   event, data, query, response, calls, abandoned, conn, geo_cache>>

TableEvents == { e \in QueryEvents : e.op \in CacheOps }

InitTables ==
    /\ ColdStart
    /\ event \in TableEvents
    /\ data = <<>>
    /\ query = NoQuery
    /\ response = NoResponse

NextTables ==
    \/ \E p \in Threads : Enter(p)
    \/ \E p \in Threads : CheckCache(p)
    \/ \E p \in Threads : CheckFile(p)
    \/ \E p \in Threads : DownloadOk(p)
    \/ \E p \in Threads : DownloadFail(p)
    \/ \E p \in Threads : Execute(p)
    \/ \E p \in Threads : Respond(p)

SpecTables == InitTables /\ [][NextTables]_vars

\* The request names no state to filter by: state is absent, empty or "US".
NoStateFilter(ev) == StateJoin(State(ev)) = <<>>

\* C24: a sector-totals request without a state filter acquires the sector fact and
\* sector dimension tables only: it makes no get_local_parquet call for the facility
\* table, the facility table's entry of file_cache is left as it was, and the request
\* is not failed by a fetch of the facility table.
C24_FacilityTableOnlyWithState ==
    (event.op = "sectors_total" /\ NoStateFilter(event)) =>
        /\ FAC \notin DOMAIN file_cache
        /\ \A p \in Threads :
              /\ ~Calling(p, FAC)
              /\ FAC \notin SeqRange(attempts[p])
              /\ bodies[p] # Err(500, FailedToDownload(FAC))

\* C24 witness: a sector-totals request for state "US" holds the paths of the sector
\* fact and sector dimension tables and is answered 500 because the fetch of the
\* facility table failed.
C24_FailedByFacilityTable ==
    \E p \in Threads :
        /\ event.op = "sectors_total"
        /\ State(event) = "US"
        /\ op[p] = "sectors_total"
        /\ pc[p] = "done"
        /\ paths[p] = <<LocalPath(SEC), LocalPath(DIM)>>
        /\ out[p] = 500
        /\ bodies[p] = Err(500, FailedToDownload(FAC))

----------------------------------------------------------------------------
(* The emissions queries: the year filter *)

\* The predicates of the WHERE clause that compare a year column with the literal y
\* for equality.
YearEquals(q, y) ==
    { i \in DOMAIN q.where :
        /\ q.where[i].lit
        /\ q.where[i].l[2] = "year"
        /\ q.where[i].cmp = "="
        /\ q.where[i].r = y }

\* C25: the query composed for a request that names a reportingYear has an equality
\* filter on that year, whatever the operation, sector trend and the export of all
\* years included.
C25_YearFilterAlways ==
    ("body" \in DOMAIN event /\ "reportingYear" \in DOMAIN event.body /\ query # NoQuery) =>
        YearEquals(query, event.body.reportingYear) # {}

\* C25 witness: a sector trend request for reportingYear 2022 has been answered with
\* the totals of a query that has no predicate on the year, and the series it returns
\* has the year 2023.
C25_TrendOfAnotherYear ==
    /\ event.op = "sector_trend"
    /\ "reportingYear" \in DOMAIN event.body
    /\ event.body.reportingYear = 2022
    /\ response.status = 200
    /\ query # NoQuery
    /\ \A i \in DOMAIN query.where : query.where[i].l[2] # "year"
    /\ \E i \in DOMAIN response.result.categories : response.result.categories[i] = 2023

----------------------------------------------------------------------------
(* The emissions queries: the sector of a trend *)

\* The predicates of the WHERE clause on the sector name.
SectorPredicates(q) == { i \in DOMAIN q.where : q.where[i].l[2] = "sector_name" }

\* The names the rows of the sector dimension table give for the sector id, when the
\* id is a numeral other than "0".
Resolved(sid, db) ==
    IF Truthy(sid) /\ sid # "0" /\ ParseInt(sid).ok
    THEN { d.sector_name : d \in { r \in db[DIM] : r.sector_id = ParseInt(sid).v } }
    ELSE {}

\* C26: sector trend answers 200 whatever the sector id is. When the id is absent,
\* "0", no integer or the id of no row of the sector dimension table, the query has
\* no predicate on the sector and the series has the default name; the query has a
\* predicate on the sector only when the id resolved, and then it is the name found.
\* Through lambda_handler a path without a sector id gives the handler the segment
\* before the last one, which is no integer.
C26_UnresolvedSectorIsAllSectors ==
    /\ (event.op = "sector_trend" /\ response # NoResponse) =>
          /\ response.status = 200
          /\ Resolved(event.args.sector_id, data) = {} =>
                /\ SectorPredicates(query) = {}
                /\ response.result.name = <<"Total GHG Emissions">>
          /\ \A i \in SectorPredicates(query) :
                \E n \in Resolved(event.args.sector_id, data) :
                    /\ query.where[i] = Lit("e", "sector_name", "=", n)
                    /\ response.result.name = <<n, " Emissions">>
          /\ Resolved(event.args.sector_id, data) # {} => SectorPredicates(query) # {}
    /\ \A path \in {<<"api", "sector", "trend", "">>, <<"api", "sector", "trend", "1">>} :
          ~ParseInt(ArgsOf(5, path)[1]).ok

\* C26 witness: a trend request whose sector id is no integer has been answered 200
\* with the default series name and the totals of a query without a sector predicate,
\* on a table that has rows.
C26_TrendOfNonInteger ==
    /\ event.op = "sector_trend"
    /\ event.args.sector_id = "abc"
    /\ response.status = 200
    /\ response.result.name = <<"Total GHG Emissions">>
    /\ SectorPredicates(query) = {}
    /\ response.result.data # <<>>

----------------------------------------------------------------------------
(* The emissions queries: rounding after summation *)

\* The rows of the sector table a sector-totals request counts, for one sector name:
\* those of the year, of emitters, not of Biogenic CO2, and of the state when one is named.
Counted(ev, db, name) ==
    { r \in db[SEC] :
        /\ r.sector_name = name
        /\ r.year = Year(ev)
        /\ r.sector_type = "E"
        /\ r.gas_name # "Biogenic CO2"
        /\ NoStateFilter(ev) \/
              \E f \in db[FAC] : f.facility_id = r.facility_id /\ f.year = r.year /\ f.state = State(ev) }

\* The sum of the emissions of a set of rows, in tons.
RECURSIVE TonsOf(_)
TonsOf(rows) ==
    IF rows = {} THEN 0
    ELSE LET r == CHOOSE x \in rows : TRUE
         IN  r.co2e_emission + TonsOf(rows \ {r})

\* C27: in sector totals each sector's value is the sector's summed emissions divided
\* by 1,000,000 and rounded, and totalReportedEmission is the sum of the unrounded
\* sums of all sectors divided by 1,000,000 and rounded once: it is not the sum of the
\* rounded values of the sectors.
C27_RoundedAfterSummation ==
    (event.op = "sectors_total" /\ response # NoResponse) =>
        LET details == response.result.sectorEmissionDetails
            raw == [i \in DOMAIN details |-> TonsOf(Counted(event, data, details[i].sectorName))]
        IN  /\ response.status = 200
            /\ \A i \in DOMAIN details : details[i].totalEmissions = RoundHalfEven(raw[i], MMT_DIVISOR)
            /\ response.result.totalReportedEmission = RoundHalfEven(SeqSum(raw), MMT_DIVISOR)

\* C27 witness: a sector-totals response of two sectors whose total differs from the
\* sum of the two rounded values.
C27_TotalIsNotSumOfRounded ==
    /\ event.op = "sectors_total"
    /\ response.status = 200
    /\ Len(response.result.sectorEmissionDetails) = 2
    /\ response.result.totalReportedEmission #
          response.result.sectorEmissionDetails[1].totalEmissions
              + response.result.sectorEmissionDetails[2].totalEmissions

----------------------------------------------------------------------------
(* The state of the process: what a request leaves behind *)

\* C28: file_cache is the only state of the process that handling a request changes:
\* no request creates or changes another module-level variable.
C28_OnlyTableCacheShared ==
    [][conn' = conn /\ geo_cache' = geo_cache]_vars

\* C28 witness: a state bounds request has been answered 200 with the bounds of the
\* state, and geo_cache, empty before, now holds the data of state_geometries.json.
C28_GeoCacheFilled ==
    /\ "path" \in DOMAIN event
    /\ Dispatch(event).handler = "handle_state_bounds"
    /\ response.status = 200
    /\ "result" \in DOMAIN response
    /\ "stateCode" \in DOMAIN response.result
    /\ DOMAIN geo_cache = {"state_geometries.json"}
    /\ geo_cache["state_geometries.json"] = data.states.codes

----------------------------------------------------------------------------
(* SpecWarm: the snapshot cache of a process that starts on a /tmp left by an     *)
(* earlier process: file_cache is empty, and a table's local file may be there,   *)
(* whole or cut short, or not be there.                                           *)

InitWarm ==
    /\ file_cache = <<>>
    /\ tmp \in [Tables -> {0, 1, Truncated}]
    /\ s3 = 1
    /\ pc = [p \in Threads |-> "idle"]
    /\ op = [p \in Threads |-> "none"]
    /\ idx = [p \in Threads |-> 0]
    /\ paths = [p \in Threads |-> <<>>]
    /\ dl = [p \in Threads |-> 0]
    /\ out = [p \in Threads |-> 0]
    /\ observed = {}
    /\ attempts = [p \in Threads |-> <<>>]
    /\ fetches = [t \in Tables |-> 0]
    /\ served = 0
    /\ bodies = [p \in Threads |-> NoResponse]
    /\ calls = <<>>
    /\ abandoned = [p \in Threads |-> FALSE]
    /\ conn = [m \in {"lambda_function", "handler"} |-> "None"]
    /\ geo_cache = <<>>
    /\ event = NoEvent
    /\ data = <<>>
    /\ query = NoQuery
    /\ response = NoResponse

\* The steps of the requests, the bucket keeping the objects it has.
NextWarm ==
    \/ \E p \in Threads : Request(p)
    \/ \E p \in Threads : CheckCache(p)
    \/ \E p \in Threads : CheckFile(p)
    \/ \E p \in Threads : DownloadOk(p)
    \/ \E p \in Threads : DownloadFail(p)
    \/ \E p \in Threads : Execute(p)
    \/ \E p \in Threads : Respond(p)

SpecWarm == InitWarm /\ [][NextWarm]_vars

\* C29: a call for a table that has no entry in file_cache but has a local file,
\* whole or not, records the mapping and returns the local path, and calls
\* download_file for nothing; and every entry of file_cache is the local path of its
\* table, /tmp/ghg.<table>.parquet.
C29_ExistingFileIsTaken ==
    /\ [](\A t \in DOMAIN file_cache : file_cache[t] = LocalPath(t))
    /\ [][\A p \in Threads :
              (/\ pc[p] = "check_file"
               /\ tmp[Tbl(p)] # 0
               /\ <<pc[p], idx[p]>>' # <<pc[p], idx[p]>>) =>
                  /\ Tbl(p) \in DOMAIN file_cache'
                  /\ file_cache'[Tbl(p)] = LocalPath(Tbl(p))
                  /\ paths'[p] = Append(paths[p], LocalPath(Tbl(p)))
                  /\ pc'[p] # "download"
                  /\ attempts'[p] = attempts[p]
                  /\ dl'[p] = 0
                  /\ tmp' = tmp]_vars

\* C29 witness: a request that called download_file for nothing is about to run its
\* query on the path of a table whose local file is cut short, and file_cache has the
\* mapping.
C29_TruncatedFileTaken ==
    \E p \in Threads :
        /\ pc[p] = "execute"
        /\ attempts[p] = <<>>
        /\ \E i \in DOMAIN paths[p] :
              LET t == TablesOf(op[p])[i]
              IN  /\ tmp[t] = Truncated
                  /\ paths[p][i] = LocalPath(t)
                  /\ t \in DOMAIN file_cache

----------------------------------------------------------------------------
(* SpecHover: handle_facility_hover from its first statement to its response: the *)
(* test of the id, the get_local_parquet calls of the thread, then the queries on *)
(* the tables.                                                                    *)

\* db = get_connection(), the facility queries and the emissions query, and the
\* response shaped from their rows.
hover_queries(p) ==
    /\ pc[p] = "execute"
    /\ op[p] = "facility_hover"
    /\ \E x \in FacilityHover(event, data) :
          /\ query' = x.query
          /\ response' = x.response
          /\ bodies' = [bodies EXCEPT ![p] = x.response]
          /\ out' = [out EXCEPT ![p] = x.response.status]
    /\ observed' = observed \cup SeqRange(TablesOf(op[p]))
    /\ conn' = GetConnection(conn, "lambda_function")
    /\ pc' = [pc EXCEPT ![p] = "done"]
    /\ UNCHANGED <<file_cache, tmp, s3, op, idx, paths, dl, attempts, fetches, served,
                   event, data, calls, abandoned, geo_cache>>

HoverEvents == { e \in QueryEvents : e.op = "facility_hover" }

InitHover ==
    /\ ColdStart
    /\ event \in HoverEvents
    /\ data \in Datasets
    /\ query = NoQuery
    /\ response = NoResponse

NextHover ==
    \/ \E p \in Threads : Enter(p)
    \/ \E p \in Threads : CheckCache(p)
    \/ \E p \in Threads : CheckFile(p)
    \/ \E p \in Threads : DownloadOk(p)
    \/ \E p \in Threads : DownloadFail(p)
    \/ \E p \in Threads : hover_queries(p)
    \/ \E p \in Threads : Respond(p)

SpecHover == InitHover /\ [][NextHover]_vars

\* The rows of the facilities table for the id.
RowsOfId(id, db) == { r \in db[FAC] : r.facility_id = id }

\* C30: a hover request whose facility has no row for the requested year but has rows
\* for other years is answered 200 with the descriptor of the row of the most recent
\* year, and its emissions are those of the requested year only; a hover request
\* without an id is answered 400 and has made no get_local_parquet call.
C30_HoverFallsBackToLatestYear ==
    \A p \in Threads :
        LET id   == Get(event.params, "id", Null)
            year == event.args.year
            rows == RowsOfId(id, data)
        IN  /\ (~Truthy(id) /\ op[p] = "facility_hover") =>
                  /\ pc[p] = "done"
                  /\ out[p] = 400
                  /\ bodies[p] = Err(400, "Missing facility id")
                  /\ paths[p] = <<>> /\ attempts[p] = <<>>
                  /\ file_cache = <<>>
            /\ (/\ Truthy(id)
                /\ pc[p] = "done" /\ out[p] # 500
                /\ rows # {}
                /\ \A r \in rows : r.year # year) =>
                  /\ out[p] = 200
                  /\ \E r \in rows :
                        /\ \A o \in rows : o.year <= r.year
                        /\ bodies[p].result.facilityTipDto.latitude =
                              (IF Truthy(r.latitude) THEN r.latitude ELSE Null)
                        /\ bodies[p].result.facilityTipDto.state = r.state
                  /\ \A i \in DOMAIN bodies[p].result.emissions :
                        \E s \in data[SEC] :
                            /\ s.facility_id = id
                            /\ s.year = year
                            /\ s.gas_name = bodies[p].result.emissions[i].type

\* C30 witness: facility 2 has rows for 2022 and 2023 and emissions in 2023; the hover
\* request for 2021 has been answered 200 with the latitude of the 2023 row and an
\* empty list of emissions.
C30_DescriptorOfLatestYear ==
    \E p \in Threads :
        /\ Get(event.params, "id", Null) = "2"
        /\ event.args.year = 2021
        /\ pc[p] = "done"
        /\ out[p] = 200
        /\ bodies[p].result.facilityTipDto.latitude = "34.0"
        /\ bodies[p].result.emissions = <<>>
        /\ \E s \in data[SEC] : s.facility_id = "2" /\ s.year = 2023

====
